---- MODULE Spec2Model ----
(***************************************************************************)
(* InMemoryGraphRepository (src/src/graph/in-memory-graph.ts) as a state   *)
(* machine.  The state is the repository object: the node map, the edge    *)
(* map, the relations schema and the id counter, plus the caller's view of *)
(* the last call (its arguments and what it returned or threw).            *)
(* InMemoryRepository (src/src/repository/in-memory-repository.ts), the    *)
(* flat entity repository, is a second state machine in the same module:   *)
(* its entities object, the clock getNewId reads, and the continuations of *)
(* the awaits that are waiting in the microtask queue.                     *)
(*                                                                         *)
(* JavaScript values are tagged records [t, v]: the code branches on       *)
(* typeof, Array.isArray and Object.keys, so the tag is part of the value. *)
(* Objects are ordered sequences of <<key, value>> entries and Maps are    *)
(* ordered sequences of [k, v] entries, both in insertion order.           *)
(***************************************************************************)
EXTENDS Integers, Sequences, FiniteSets, TLC

\* Largest value the id counter may reach in a behaviour.
MaxId == 3
\* Number of repository calls in a behaviour.
MaxCalls == 2
\* Number of calls of the flat entity repository in a behaviour.
MaxFlatCalls == 3
\* Largest value the clock may reach in a behaviour.
MaxClock == 2

-----------------------------------------------------------------------------
\* JavaScript values

Str(s) == [t |-> "string", v |-> s]
Num(n) == [t |-> "number", v |-> n]
Bool(b) == [t |-> "boolean", v |-> b]
Undefined == [t |-> "undefined", v |-> 0]
Arr(s) == [t |-> "array", v |-> s]
Obj(entries) == [t |-> "object", v |-> entries]
\* A RegExp, given by the strings it matches
RegExp(matched) == [t |-> "regexp", v |-> matched]

typeof(x) == IF x.t \in {"array", "regexp"} THEN "object" ELSE x.t
isArray(x) == x.t = "array"
isObject(x) == x.t \in {"object", "array", "regexp"}

\* !x
falsy(x) ==
  \/ x.t = "undefined"
  \/ x.t = "boolean" /\ ~x.v
  \/ x.t = "number" /\ x.v = 0
  \/ x.t = "string" /\ x.v = ""

\* a === b: primitives by value, objects by reference (two object values of the
\* model are never the same reference: every object literal is a fresh object).
StrictEq(a, b) == ~isObject(a) /\ a.t = b.t /\ a.v = b.v

\* `${x}` for the values the code interpolates (ids, edge types)
ToStr(x) ==
  CASE x.t = "string" -> x.v
    [] x.t = "number" -> ToString(x.v)
    [] x.t = "boolean" -> (IF x.v THEN "true" ELSE "false")
    [] x.t = "undefined" -> "undefined"
    [] OTHER -> "[object Object]"

\* Left fold of a sequence
FoldLeft(op(_, _), base, seq) ==
  LET f[i \in 0..Len(seq)] == IF i = 0 THEN base ELSE op(f[i - 1], seq[i])
  IN  f[Len(seq)]

\* Object.entries(x): own enumerable entries; an array's keys are its indices
ObjEntries(x) ==
  CASE x.t = "object" -> x.v
    [] x.t = "array" -> [i \in 1..Len(x.v) |-> <<ToString(i - 1), x.v[i]>>]
    [] OTHER -> <<>>

\* key in x
HasKey(x, key) == \E i \in 1..Len(ObjEntries(x)) : ObjEntries(x)[i][1] = key

\* x[key]
Get(x, key) ==
  IF ~isObject(x) THEN Undefined
  ELSE IF HasKey(x, key)
  THEN LET i == CHOOSE j \in 1..Len(ObjEntries(x)) : ObjEntries(x)[j][1] = key
       IN  ObjEntries(x)[i][2]
  ELSE Undefined

\* Object.fromEntries(entries) and the object literal { ...a, ...b }: a later
\* value for a key replaces the earlier one in place.
SetEntry(entries, key, val) ==
  IF \E i \in 1..Len(entries) : entries[i][1] = key
  THEN [i \in 1..Len(entries) |->
          IF entries[i][1] = key THEN <<key, val>> ELSE entries[i]]
  ELSE Append(entries, <<key, val>>)

fromEntries(entries) ==
  Obj(FoldLeft(LAMBDA acc, e: SetEntry(acc, e[1], e[2]), <<>>, entries))

Spread(a, b) == fromEntries(ObjEntries(a) \o ObjEntries(b))

-----------------------------------------------------------------------------
\* Map<ID, T>: insertion-ordered entries [k, v]

\* Keys are JavaScript values (the ids are strings).
MapHas(m, key) == \E i \in 1..Len(m) : m[i].k = key

\* Map.get(key): undefined when absent
MapGet(m, key) ==
  IF MapHas(m, key)
  THEN m[CHOOSE i \in 1..Len(m) : m[i].k = key].v
  ELSE Undefined

\* Map.set(key, val): an existing key keeps its place
MapSet(m, key, val) ==
  IF MapHas(m, key)
  THEN [i \in 1..Len(m) |-> IF m[i].k = key THEN [k |-> key, v |-> val] ELSE m[i]]
  ELSE Append(m, [k |-> key, v |-> val])

\* Map.delete(key)
MapDelete(m, key) == SelectSeq(m, LAMBDA e: e.k # key)

\* new Map(entries)
MapFrom(entries) == FoldLeft(LAMBDA m, e: MapSet(m, e.k, e.v), <<>>, entries)

MapValues(m) == [i \in 1..Len(m) |-> m[i].v]

-----------------------------------------------------------------------------
\* The schema and the snapshots a repository is constructed from

Rel(direction, relatedType, edgeType) ==
  Obj(<< <<direction, Str(relatedType)>>, <<"type", Str(edgeType)>> >>)

testGraphRelations ==
  Obj(<< <<"user", Obj(<< <<"authors", Rel("to", "author", "is")>> >>)>>,
         <<"author", Obj(<< <<"users", Rel("from", "user", "is")>>,
                            <<"documents", Rel("to", "document", "owns")>> >>)>>,
         <<"document", Obj(<< <<"authors", Rel("from", "author", "owns")>>,
                              <<"contents", Rel("to", "content", "uses")>> >>)>>,
         <<"content", Obj(<< <<"documents", Rel("from", "document", "uses")>> >>)>> >>)

UserNode(id, username) ==
  Obj(<< <<"id", Str(id)>>, <<"type", Str("user")>>, <<"username", Str(username)>> >>)
AuthorNode(id, name) ==
  Obj(<< <<"id", Str(id)>>, <<"type", Str("author")>>, <<"name", Str(name)>> >>)
DocumentNode(id, title, pages) ==
  Obj(<< <<"id", Str(id)>>, <<"type", Str("document")>>, <<"title", Str(title)>>,
         <<"pages", Num(pages)>> >>)
EdgeRec(from, type, to) ==
  Obj(<< <<"from", Str(from)>>, <<"type", Str(type)>>, <<"to", Str(to)>> >>)

testGraph ==
  [nodes |-> << UserNode("user1", "testuser"),
                AuthorNode("author1", "Author 1"),
                AuthorNode("author2", "Author 2"),
                AuthorNode("author3", "System Author"),
                AuthorNode("author4", "Writes nothing"),
                DocumentNode("doc1", "Document 1", 1),
                Spread(DocumentNode("doc2", "Document 2", 2),
                       Obj(<< <<"isPublic", Bool(TRUE)>> >>)),
                DocumentNode("doc3", "Document 3", 3) >>,
   edges |-> << EdgeRec("user1", "is", "author1"),
                EdgeRec("user1", "is", "author3"),
                EdgeRec("author1", "owns", "doc1"),
                EdgeRec("author2", "owns", "doc2"),
                EdgeRec("author3", "owns", "doc2"),
                EdgeRec("author3", "owns", "doc3") >>,
   relations |-> testGraphRelations]

\* A graph whose nodes carry ids an earlier repository generated ("1", "2").
reloadedGraph ==
  [nodes |-> << UserNode("1", "first"), AuthorNode("2", "Second") >>,
   edges |-> << EdgeRec("1", "is", "2") >>,
   relations |-> testGraphRelations]

\* A graph whose one kind relates to itself, with a cycle (p1 knows p2, p2
\* knows p1) and two edges of different kinds between p2 and p3.
PersonNode(id, name) ==
  Obj(<< <<"id", Str(id)>>, <<"type", Str("person")>>, <<"name", Str(name)>> >>)
socialGraph ==
  [nodes |-> << PersonNode("p1", "Ann"), PersonNode("p2", "Bob"), PersonNode("p3", "Cy") >>,
   edges |-> << EdgeRec("p1", "knows", "p2"),
                EdgeRec("p2", "knows", "p1"),
                EdgeRec("p2", "knows", "p3"),
                EdgeRec("p2", "follows", "p3") >>,
   relations |-> Obj(<< <<"person", Obj(<< <<"knows", Rel("to", "person", "knows")>>,
                                           <<"knownBy", Rel("from", "person", "knows")>>,
                                           <<"follows", Rel("to", "person", "follows")>> >>)>> >>)]

\* new InMemoryGraphRepository(): no graph is given
noGraph == Undefined

Snapshots == << testGraph, reloadedGraph, noGraph, socialGraph >>

-----------------------------------------------------------------------------
VARIABLES nodes, edges, relations, idCount, last, prev, calls,
          entities, clock, microtasks, started, outcome, ncalls

graphVars == <<nodes, edges, relations, idCount, last, prev, calls>>
flatVars == <<entities, clock, microtasks, started, outcome, ncalls>>
vars == <<graphVars, flatVars>>

\* The mutable part of the repository while a call runs: err is the name of
\* the exception that is propagating ("" when none), ret the value returned,
\* sets the calls of nodes.set and edges.set the call has made, in order.
Repo(n, e, c) ==
  [nodes |-> n, edges |-> e, idCount |-> c, err |-> "", ret |-> Undefined, sets |-> <<>>]
Return(st, val) == [st EXCEPT !.ret = val]
Throw(st, name) == [st EXCEPT !.err = name, !.ret = Undefined]

\* const v = ...; body
With(v, body(_)) == body(v)

\* this.nodes.set(id, node) and this.edges.set(id, edge)
SetNode(st, id, node) ==
  [st EXCEPT !.nodes = MapSet(st.nodes, id, node),
             !.sets = Append(st.sets, [map |-> "nodes", key |-> id, val |-> node])]
SetEdge(st, id, edge) ==
  [st EXCEPT !.edges = MapSet(st.edges, id, edge),
             !.sets = Append(st.sets, [map |-> "edges", key |-> id, val |-> edge])]

\* constructor(graph): graph?.nodes, graph?.edges, graph?.relations ?? {}
constructor(graph) ==
  IF graph = Undefined
  THEN [nodes |-> <<>>, edges |-> <<>>, relations |-> Obj(<<>>)]
  ELSE [nodes |-> MapFrom([i \in 1..Len(graph.nodes) |->
                             [k |-> Get(graph.nodes[i], "id"), v |-> graph.nodes[i]]]),
        edges |-> MapFrom([i \in 1..Len(graph.edges) |->
                             [k |-> Str(ToStr(Get(graph.edges[i], "from")) \o ":"
                                        \o ToStr(Get(graph.edges[i], "to"))),
                              v |-> graph.edges[i]]]),
        relations |-> graph.relations]

\* this.relations[type] ?? {}
relationsForType(type) ==
  IF HasKey(relations, ToStr(type)) THEN Get(relations, ToStr(type)) ELSE Obj(<<>>)

relationExists(type, key) == HasKey(relationsForType(type), key)

getRelation(type, key) == Get(relationsForType(type), key)

\* parseRelation(relation), for a relation that is an object
parseRelation(relation) ==
  With(IF HasKey(relation, "from") THEN "from" ELSE "to", LAMBDA direction:
    [direction |-> direction,
     relatedType |-> Get(relation, direction),
     edgeType |-> Get(relation, "type")])

getEdgeId(node, relatedNode, relation) ==
  With(parseRelation(relation), LAMBDA p:
    IF p.direction = "from"
    THEN Str(ToStr(Get(relatedNode, "id")) \o "::" \o ToStr(p.edgeType) \o "::"
             \o ToStr(Get(node, "id")))
    ELSE Str(ToStr(Get(node, "id")) \o "::" \o ToStr(p.edgeType) \o "::"
             \o ToStr(Get(relatedNode, "id"))))

\* Variant of getRelatedNodes that follows edges of 'to' relations only
getRelatedNodes_toOnly(st, from, key) ==
  With(IF typeof(from) = "string" THEN MapGet(st.nodes, from) ELSE from, LAMBDA node:
    IF node.t = "undefined" THEN Throw(st, "TypeError")
    ELSE With(getRelation(Get(node, "type"), key), LAMBDA relation:
      IF relation.t = "undefined" THEN Throw(st, "TypeError")
      ELSE With(parseRelation(relation), LAMBDA p:
        IF p.direction = "to"
        THEN With(SelectSeq(st.edges, LAMBDA entry:
                    /\ falsy(p.edgeType) \/ StrictEq(Get(entry.v, "type"), p.edgeType)
                    /\ StrictEq(Get(MapGet(st.nodes, Get(entry.v, "from")), "id"),
                                Get(node, "id"))
                    /\ StrictEq(Get(MapGet(st.nodes, Get(entry.v, "to")), "type"),
                                p.relatedType)),
                  LAMBDA pushed:
                    Return(st, Arr([k \in 1..Len(pushed) |->
                                      MapGet(st.nodes, Get(pushed[k].v, "to"))])))
        ELSE Return(st, Arr(<<>>)))))

\* getRelatedNodes(from, key): the related node records, in edge-map order.
\* Reading node.type of a missing node, or 'from' in an undefined relation,
\* throws a TypeError.
getRelatedNodes(st, from, key) ==
  With(IF typeof(from) = "string" THEN MapGet(st.nodes, from) ELSE from, LAMBDA node:
    IF node.t = "undefined" THEN Throw(st, "TypeError")
    ELSE With(getRelation(Get(node, "type"), key), LAMBDA relation:
      IF relation.t = "undefined" THEN Throw(st, "TypeError")
      ELSE With(parseRelation(relation), LAMBDA p:
        IF p.direction = "to"
        THEN With(SelectSeq(st.edges, LAMBDA entry:
                    /\ falsy(p.edgeType) \/ StrictEq(Get(entry.v, "type"), p.edgeType)
                    /\ StrictEq(Get(MapGet(st.nodes, Get(entry.v, "from")), "id"),
                                Get(node, "id"))
                    /\ StrictEq(Get(MapGet(st.nodes, Get(entry.v, "to")), "type"),
                                p.relatedType)),
                  LAMBDA pushed:
                    Return(st, Arr([k \in 1..Len(pushed) |->
                                      MapGet(st.nodes, Get(pushed[k].v, "to"))])))
        ELSE With(SelectSeq(st.edges, LAMBDA entry:
                    /\ falsy(p.edgeType) \/ StrictEq(Get(entry.v, "type"), p.edgeType)
                    /\ StrictEq(Get(MapGet(st.nodes, Get(entry.v, "from")), "type"),
                                p.relatedType)
                    /\ StrictEq(Get(MapGet(st.nodes, Get(entry.v, "to")), "id"),
                                Get(node, "id"))),
                  LAMBDA pushed:
                    Return(st, Arr([k \in 1..Len(pushed) |->
                                      MapGet(st.nodes, Get(pushed[k].v, "from"))]))))))

\* getModel(from): the proxy is represented by the record it wraps; its traps
\* are ModelGet and ModelSpread.  Reading node.type of a missing node throws.
getModel(st, from) ==
  With(IF typeof(from) = "string" THEN MapGet(st.nodes, from) ELSE from, LAMBDA node:
    IF node.t = "undefined" THEN Throw(st, "TypeError") ELSE Return(st, node))

\* The proxy's get trap: model[key]
ModelGet(st, node, key) ==
  IF HasKey(node, key) THEN Return(st, Get(node, key))
  ELSE IF ~relationExists(Get(node, "type"), key) THEN Return(st, Undefined)
  ELSE getRelatedNodes(st, node, key)

-----------------------------------------------------------------------------
\* The query matcher.  A matcher returns [err, ret]: the exception it throws
\* ("" when none) and the truth of its result.

Match(b) == [err |-> "", ret |-> b]
MatchThrow(name) == [err |-> name, ret |-> FALSE]

\* seq.reduce((result, x) => result && next(x), true): the first next(x), in
\* order, that throws or is false decides.  The matchers have no effect on the
\* stores, so the results after the deciding one are computed and dropped.
AndAlso(seq, next(_)) ==
  Head(SelectSeq([k \in 1..Len(seq) |-> next(seq[k])], LAMBDA r: r.err # "" \/ ~r.ret)
       \o << Match(TRUE) >>)
\* seq.some(x => next(x)): the first next(x) that throws or is true decides
OrElse(seq, next(_)) ==
  Head(SelectSeq([k \in 1..Len(seq) |-> next(seq[k])], LAMBDA r: r.err # "" \/ r.ret)
       \o << Match(FALSE) >>)

\* ToNumber for the relational operators: -1 stands for NaN (counts, pages and
\* lengths are never negative).  A string or a non-empty array of records is NaN.
ToNumber(x) ==
  CASE x.t = "number" -> x.v
    [] x.t = "boolean" -> (IF x.v THEN 1 ELSE 0)
    [] x.t = "array" /\ Len(x.v) = 0 -> 0
    [] OTHER -> -1

Compare(op, a, b) ==
  LET x == ToNumber(a)
      y == ToNumber(b)
  IN  /\ x >= 0
      /\ y >= 0
      /\ CASE op = "lt" -> x < y
           [] op = "lte" -> x <= y
           [] op = "gt" -> x > y
           [] op = "gte" -> x >= y

\* x.length
LengthOf(x) == IF x.t = "array" THEN Num(Len(x.v)) ELSE Undefined

\* Variant of parseOperator that takes the first entry without counting them
parseOperator_first(operator) ==
  IF Len(ObjEntries(operator)) = 0
  THEN [err |-> "TypeError", ret |-> <<"", Undefined>>]
  ELSE [err |-> "", ret |-> ObjEntries(operator)[1]]

\* parseOperator(operator): the single entry, or a ValidationError
parseOperator(operator) ==
  IF Len(ObjEntries(operator)) # 1
  THEN [err |-> "ValidationError", ret |-> <<"", Undefined>>]
  ELSE [err |-> "", ret |-> ObjEntries(operator)[1]]

RECURSIVE matchesOperator(_, _)
\* case 'length' of matchesOperator: the length is matched against a nested
\* operator object, or compared with the given value
matchesLength(length, rvalue) ==
  IF isObject(rvalue)
  THEN matchesOperator(length, rvalue)
  ELSE Match(StrictEq(length, rvalue))

matchesOperator(value, operator) ==
  With(parseOperator(operator), LAMBDA parsed:
    LET op == parsed.ret[1]
        rvalue == parsed.ret[2]
    IN  IF parsed.err # "" THEN MatchThrow(parsed.err)
        ELSE CASE op = "eq" -> Match(StrictEq(value, rvalue))
               [] op = "ne" -> Match(~StrictEq(value, rvalue))
               [] op \in {"lt", "lte", "gt", "gte"} -> Match(Compare(op, value, rvalue))
               [] op = "re" ->
                    IF rvalue.t # "regexp" THEN MatchThrow("TypeError")
                    ELSE Match(\E i \in 1..Len(rvalue.v) : rvalue.v[i] = ToStr(value))
               [] op = "empty" ->
                    IF value.t = "undefined" THEN MatchThrow("TypeError")
                    ELSE Match(StrictEq(LengthOf(value), Num(0)) /\ ~falsy(rvalue))
               [] op = "length" ->
                    IF value.t = "undefined" THEN MatchThrow("TypeError")
                    ELSE matchesLength(LengthOf(value), rvalue)
               [] op = "includes" ->
                    IF value.t # "array" THEN MatchThrow("TypeError")
                    ELSE Match(\E i \in 1..Len(value.v) : StrictEq(value.v[i], rvalue))
               [] OTHER -> MatchThrow("NotImplementedError"))

\* matchesValueQueryField(node, key, field)
matchesValueQueryField(node, key, field) ==
  With(Get(node, key), LAMBDA value:
    IF isArray(field) /\ typeof(Get(field, "0")) # "object"
    THEN Match(\E i \in 1..Len(field.v) : StrictEq(field.v[i], value))
    ELSE IF typeof(field) = "object"
    THEN matchesOperator(value, field)
    ELSE Match(StrictEq(value, field)))

\* The entries of a query whose key is not (is) a relation of the node's type
getValueQueryFields(node, nodeQuery) ==
  SelectSeq(ObjEntries(nodeQuery),
            LAMBDA e: ~HasKey(relationsForType(Get(node, "type")), e[1]))

getRelationQueryFields(node, nodeQuery) ==
  SelectSeq(ObjEntries(nodeQuery),
            LAMBDA e: HasKey(relationsForType(Get(node, "type")), e[1]))

matchesValueFields(node, fields) ==
  AndAlso(fields, LAMBDA e: matchesValueQueryField(node, e[1], e[2]))

RECURSIVE matchesNodeQuery(_, _, _)
\* Variant of matchesRelationQueryField that tests the first related node only
matchesRelationQueryField_first(st, node, key, field) ==
  With(getRelatedNodes(st, node, key), LAMBDA related:
    IF related.err # "" THEN MatchThrow(related.err)
    ELSE IF isArray(field)
    THEN IF related.ret.v = <<>> THEN Match(FALSE)
         ELSE OrElse(field.v, LAMBDA nodeQuery:
                       matchesNodeQuery(st, related.ret.v[1], nodeQuery))
    ELSE matchesOperator(related.ret, field))

\* Variant of matchesRelationQueryField where every related node has to
\* satisfy a sub-query
matchesRelationQueryField_every(st, node, key, field) ==
  With(getRelatedNodes(st, node, key), LAMBDA related:
    IF related.err # "" THEN MatchThrow(related.err)
    ELSE IF isArray(field)
    THEN AndAlso(related.ret.v, LAMBDA relNode:
           OrElse(field.v, LAMBDA nodeQuery: matchesNodeQuery(st, relNode, nodeQuery)))
    ELSE matchesOperator(related.ret, field))

\* matchesRelationQueryField(node, key, field)
matchesRelationQueryField(st, node, key, field) ==
  With(getRelatedNodes(st, node, key), LAMBDA related:
    IF related.err # "" THEN MatchThrow(related.err)
    ELSE IF isArray(field)
    THEN OrElse(related.ret.v, LAMBDA relNode:
           OrElse(field.v, LAMBDA nodeQuery: matchesNodeQuery(st, relNode, nodeQuery)))
    ELSE matchesOperator(related.ret, field))

matchesRelationFields(st, node, fields) ==
  AndAlso(fields, LAMBDA e: matchesRelationQueryField(st, node, e[1], e[2]))

matchesNodeQuery(st, node, nodeQuery) ==
  With(matchesValueFields(node, getValueQueryFields(node, nodeQuery)), LAMBDA byValue:
    IF byValue.err # "" \/ ~byValue.ret THEN byValue
    ELSE matchesRelationFields(st, node, getRelationQueryFields(node, nodeQuery)))

\* The largest of a set of depths (0 when the set is empty)
Deepest(depths) == IF depths = {} THEN 0 ELSE CHOOSE d \in depths : \A e \in depths : e <= d

RECURSIVE WalkDepth(_, _, _)
\* The depth of a walk that goes from a node to all its related nodes, for
\* fuel steps at most
WalkDepth(st, node, fuel) ==
  IF fuel = 0 THEN 0
  ELSE 1 + Deepest(UNION {
             With(getRelatedNodes(st, node, ObjEntries(relationsForType(Get(node, "type")))[a][1]),
                  LAMBDA related:
                    IF related.err # "" THEN {}
                    ELSE {WalkDepth(st, related.ret.v[r], fuel - 1) :
                            r \in 1..Len(related.ret.v)}) :
             a \in 1..Len(ObjEntries(relationsForType(Get(node, "type"))))})

\* Variant of matchesNodeQueryDepth in which the recursion follows the
\* relations of the graph instead of the sub-queries
matchesNodeQueryDepth_alongGraph(st, node, nodeQuery) == WalkDepth(st, node, 6)

RECURSIVE matchesNodeQueryDepth(_, _, _)
\* The depth of the calls of matchesNodeQuery that matchesNodeQuery(node,
\* nodeQuery) can make, itself included: matchesRelationQueryField calls it for
\* the related nodes and the sub-queries of a relation field that is a list.
\* The calls that && and some() skip are counted too.
matchesNodeQueryDepth(st, node, nodeQuery) ==
  1 + Deepest(UNION {
        IF ~isArray(getRelationQueryFields(node, nodeQuery)[i][2]) THEN {}
        ELSE With(getRelatedNodes(st, node, getRelationQueryFields(node, nodeQuery)[i][1]),
                  LAMBDA related:
                    IF related.err # "" THEN {}
                    ELSE {matchesNodeQueryDepth(st, related.ret.v[r],
                                                getRelationQueryFields(node, nodeQuery)[i][2].v[q]) :
                            r \in 1..Len(related.ret.v),
                            q \in 1..Len(getRelationQueryFields(node, nodeQuery)[i][2].v)}) :
        i \in 1..Len(getRelationQueryFields(node, nodeQuery))})

\* findByType(type): the node records of a type, in node-map order
findByType(st, type) ==
  SelectSeq(MapValues(st.nodes), LAMBDA node: StrictEq(Get(node, "type"), type))

\* findByQuery(query): filter keeps the nodes of the type that match, and the
\* first matcher that throws ends the call.  The matchers have no effect on
\* the stores, so the nodes after a throwing one are matched and dropped.
findByQuery(st, query) ==
  IF query.t = "undefined" THEN Throw(st, "TypeError")
  ELSE With(findByType(st, Get(query, "type")), LAMBDA ofType:
    With(SelectSeq([k \in 1..Len(ofType) |->
                      [node |-> ofType[k], m |-> matchesNodeQuery(st, ofType[k], query)]],
                   LAMBDA r: r.m.err # "" \/ r.m.ret),
         LAMBDA kept:
           IF \E k \in 1..Len(kept) : kept[k].m.err # ""
           THEN Throw(st, SelectSeq(kept, LAMBDA r: r.m.err # "")[1].m.err)
           ELSE Return(st, Arr([k \in 1..Len(kept) |-> kept[k].node]))))

\* Variant of find that drops a node an earlier query of the list returned
find_deduplicated(st, input) ==
  IF typeof(input) = "string" THEN getModel(st, input)
  ELSE IF isArray(input) /\ typeof(Get(input, "0")) = "string"
  THEN FoldLeft(LAMBDA acc, id:
                  IF acc.err # "" THEN acc
                  ELSE With(getModel(st, id), LAMBDA m:
                         IF m.err # "" THEN m
                         ELSE Return(acc, Arr(Append(acc.ret.v, m.ret)))),
                Return(st, Arr(<<>>)), input.v)
  ELSE IF isArray(input)
  THEN FoldLeft(LAMBDA acc, inp:
                  IF acc.err # "" THEN acc
                  ELSE With(findByQuery(st, inp), LAMBDA r:
                         IF r.err # "" THEN r
                         ELSE Return(acc, Arr(acc.ret.v \o
                                SelectSeq(r.ret.v,
                                          LAMBDA n: \A i \in 1..Len(acc.ret.v) :
                                                      acc.ret.v[i] # n)))),
                Return(st, Arr(<<>>)), input.v)
  ELSE findByQuery(st, input)

\* Variant of find that puts the results of a later query of the list first
find_laterFirst(st, input) ==
  IF typeof(input) = "string" THEN getModel(st, input)
  ELSE IF isArray(input) /\ typeof(Get(input, "0")) = "string"
  THEN FoldLeft(LAMBDA acc, id:
                  IF acc.err # "" THEN acc
                  ELSE With(getModel(st, id), LAMBDA m:
                         IF m.err # "" THEN m
                         ELSE Return(acc, Arr(Append(acc.ret.v, m.ret)))),
                Return(st, Arr(<<>>)), input.v)
  ELSE IF isArray(input)
  THEN FoldLeft(LAMBDA acc, inp:
                  IF acc.err # "" THEN acc
                  ELSE With(findByQuery(st, inp), LAMBDA r:
                         IF r.err # "" THEN r
                         ELSE Return(acc, Arr(r.ret.v \o acc.ret.v))),
                Return(st, Arr(<<>>)), input.v)
  ELSE findByQuery(st, input)

\* Variant of find that takes an id from the counter on every call
find_allocating(st, input) ==
  With(IF typeof(input) = "string" THEN getModel(st, input)
       ELSE IF isArray(input) /\ typeof(Get(input, "0")) = "string"
       THEN FoldLeft(LAMBDA acc, id:
                       IF acc.err # "" THEN acc
                       ELSE With(getModel(st, id), LAMBDA m:
                              IF m.err # "" THEN m
                              ELSE Return(acc, Arr(Append(acc.ret.v, m.ret)))),
                     Return(st, Arr(<<>>)), input.v)
       ELSE IF isArray(input)
       THEN FoldLeft(LAMBDA acc, inp:
                       IF acc.err # "" THEN acc
                       ELSE With(findByQuery(st, inp), LAMBDA r:
                              IF r.err # "" THEN r
                              ELSE Return(acc, Arr(acc.ret.v \o r.ret.v))),
                     Return(st, Arr(<<>>)), input.v)
       ELSE findByQuery(st, input),
       LAMBDA r: [r EXCEPT !.idCount = @ + 1])

\* find(input)
find(st, input) ==
  IF typeof(input) = "string" THEN getModel(st, input)
  ELSE IF isArray(input) /\ typeof(Get(input, "0")) = "string"
  THEN FoldLeft(LAMBDA acc, id:
                  IF acc.err # "" THEN acc
                  ELSE With(getModel(st, id), LAMBDA m:
                         IF m.err # "" THEN m
                         ELSE Return(acc, Arr(Append(acc.ret.v, m.ret)))),
                Return(st, Arr(<<>>)), input.v)
  ELSE IF isArray(input)
  THEN FoldLeft(LAMBDA acc, inp:
                  IF acc.err # "" THEN acc
                  ELSE With(findByQuery(st, inp), LAMBDA r:
                         IF r.err # "" THEN r
                         ELSE Return(acc, Arr(acc.ret.v \o r.ret.v))),
                Return(st, Arr(<<>>)), input.v)
  ELSE findByQuery(st, input)

-----------------------------------------------------------------------------
\* create

\* getNextId(): the new counter is in idCount, the id in ret
getNextId(st) ==
  [st EXCEPT !.idCount = st.idCount + 1, !.ret = Str(ToString(st.idCount + 1))]

isNodeRef(value) ==
  /\ typeof(value) = "object"
  /\ Len(ObjEntries(value)) = 1
  /\ HasKey(value, "id")
  /\ typeof(Get(value, "id")) = "string"

\* makeCreateInput(type, input) and makeQuery(type, input): add "type"
makeCreateInput(type, input) ==
  IF isArray(input)
  THEN Arr([i \in 1..Len(input.v) |-> Spread(input.v[i], Obj(<< <<"type", type>> >>))])
  ELSE Spread(input, Obj(<< <<"type", type>> >>))

makeQuery(type, input) == makeCreateInput(type, input)

getCreateValueFields(type, input) ==
  fromEntries(SelectSeq(ObjEntries(input), LAMBDA e: ~HasKey(relationsForType(type), e[1])))

getCreateRelationsFields(type, input) ==
  fromEntries(SelectSeq(ObjEntries(input), LAMBDA e: HasKey(relationsForType(type), e[1])))

\* Variant of makeEdgesFromRelation that reads relatedNode?.id instead of throwing
makeEdgesFromRelation_optionalId(st, node, relation, relatedNodes) ==
  With(parseRelation(relation), LAMBDA p:
    FoldLeft(LAMBDA s, relatedNode:
               IF s.err # "" THEN s
               ELSE SetEdge(s, getEdgeId(node, relatedNode, relation),
                            Obj(<< <<"from", IF p.direction = "from"
                                             THEN Get(relatedNode, "id") ELSE Get(node, "id")>>,
                                   <<"to", IF p.direction = "from"
                                           THEN Get(node, "id") ELSE Get(relatedNode, "id")>>,
                                   <<"type", p.edgeType>> >>)),
             st, relatedNodes))

\* Variant of makeEdgesFromRelation that stores every edge as a new entry
makeEdgesFromRelation_append(st, node, relation, relatedNodes) ==
  With(parseRelation(relation), LAMBDA p:
    FoldLeft(LAMBDA s, relatedNode:
               IF s.err # "" THEN s
               ELSE IF relatedNode.t = "undefined" THEN Throw(s, "TypeError")
               ELSE [s EXCEPT !.edges =
                       Append(s.edges,
                              [k |-> getEdgeId(node, relatedNode, relation),
                               v |-> Obj(<< <<"from", IF p.direction = "from"
                                                      THEN Get(relatedNode, "id") ELSE Get(node, "id")>>,
                                            <<"to", IF p.direction = "from"
                                                    THEN Get(node, "id") ELSE Get(relatedNode, "id")>>,
                                            <<"type", p.edgeType>> >>)])],
             st, relatedNodes))

\* makeEdgesFromRelation(node, relation, relatedNodes): one edges.set per
\* related node; reading the id of an undefined related node throws.
makeEdgesFromRelation(st, node, relation, relatedNodes) ==
  With(parseRelation(relation), LAMBDA p:
    FoldLeft(LAMBDA s, relatedNode:
               IF s.err # "" THEN s
               ELSE IF relatedNode.t = "undefined" THEN Throw(s, "TypeError")
               ELSE SetEdge(s, getEdgeId(node, relatedNode, relation),
                            Obj(<< <<"from", IF p.direction = "from"
                                             THEN Get(relatedNode, "id") ELSE Get(node, "id")>>,
                                   <<"to", IF p.direction = "from"
                                           THEN Get(node, "id") ELSE Get(relatedNode, "id")>>,
                                   <<"type", p.edgeType>> >>)),
             st, relatedNodes))

\* removeEdgesFromRelation(node, relation, relatedNodes)
removeEdgesFromRelation(st, node, relation, relatedNodes) ==
  FoldLeft(LAMBDA s, relatedNode:
             IF s.err # "" THEN s
             ELSE IF relatedNode.t = "undefined" THEN Throw(s, "TypeError")
             ELSE [s EXCEPT !.edges = MapDelete(s.edges, getEdgeId(node, relatedNode, relation))],
           st, relatedNodes)

\* Variant of removeEdgesFromNode that removes the outgoing edges only
removeEdgesFromNode_outgoing(st, node) ==
  [st EXCEPT !.edges =
     SelectSeq(st.edges, LAMBDA e: ~StrictEq(Get(e.v, "from"), Get(node, "id")))]

\* Variant of removeEdgesFromNode that clears the edge store
removeEdgesFromNode_all(st, node) ==
  [st EXCEPT !.edges = <<>>]

\* removeEdgesFromNode(node)
removeEdgesFromNode(st, node) ==
  [st EXCEPT !.edges =
     SelectSeq(st.edges, LAMBDA e: ~(\/ StrictEq(Get(e.v, "from"), Get(node, "id"))
                                     \/ StrictEq(Get(e.v, "to"), Get(node, "id"))))]

RECURSIVE createNode(_, _)
\* create(input) for a single input: createNode, then getModel of the model
createOne(st, input) ==
  With(createNode(st, input), LAMBDA s:
    IF s.err # "" THEN s ELSE getModel(s, s.ret))

\* makeNodesFromRelation(relation, input): ret is the array of related nodes
makeNodesFromRelation(st, relation, input) ==
  FoldLeft(LAMBDA s, inp:
             IF s.err # "" THEN s
             ELSE IF isNodeRef(inp)
             THEN Return(s, Arr(Append(s.ret.v, MapGet(s.nodes, Get(inp, "id")))))
             ELSE With(createOne(s, makeCreateInput(parseRelation(relation).relatedType, inp)),
                       LAMBDA c:
                         IF c.err # "" THEN c ELSE Return(c, Arr(Append(s.ret.v, c.ret)))),
           Return(st, Arr(<<>>)),
           IF isArray(input) THEN input.v ELSE <<input>>)

\* Variant of createNode that stores the node after its relations were made
createNode_storedLast(st, input) ==
  IF st.err # "" THEN st
  ELSE IF input.t = "undefined" THEN Throw(getNextId(st), "TypeError")
  ELSE With(getNextId(st), LAMBDA s1:
    With(Get(input, "type"), LAMBDA type:
      With(Spread(Obj(<< <<"id", s1.ret>> >>), getCreateValueFields(type, input)), LAMBDA node:
        With(FoldLeft(LAMBDA s, e:
                        IF s.err # "" \/ falsy(e[2]) THEN s
                        ELSE With(getRelation(type, e[1]), LAMBDA relation:
                          With(makeNodesFromRelation(s, relation, e[2]), LAMBDA made:
                            IF made.err # "" THEN made
                            ELSE makeEdgesFromRelation(made, node, relation, made.ret.v))),
                      s1,
                      ObjEntries(getCreateRelationsFields(type, input))),
             LAMBDA s3: IF s3.err # "" THEN s3
                        ELSE getModel(SetNode(s3, s1.ret, node), s1.ret)))))

\* createNode(input)
createNode(st, input) ==
  IF st.err # "" THEN st
  ELSE IF input.t = "undefined" THEN Throw(getNextId(st), "TypeError")
  ELSE With(getNextId(st), LAMBDA s1:
    With(Get(input, "type"), LAMBDA type:
      With(Spread(Obj(<< <<"id", s1.ret>> >>), getCreateValueFields(type, input)), LAMBDA node:
        With(FoldLeft(LAMBDA s, e:
                        IF s.err # "" \/ falsy(e[2]) THEN s
                        ELSE With(getRelation(type, e[1]), LAMBDA relation:
                          With(makeNodesFromRelation(s, relation, e[2]), LAMBDA made:
                            IF made.err # "" THEN made
                            ELSE makeEdgesFromRelation(made, node, relation, made.ret.v))),
                      SetNode(s1, s1.ret, node),
                      ObjEntries(getCreateRelationsFields(type, input))),
             LAMBDA s3: IF s3.err # "" THEN s3 ELSE getModel(s3, s1.ret)))))

\* Variant of create that restores the stores and the counter when it fails
create_rollback(st, input) ==
  With(IF isArray(input)
       THEN FoldLeft(LAMBDA s, inp:
                       IF s.err # "" THEN s
                       ELSE With(createNode(s, inp), LAMBDA c:
                              IF c.err # "" THEN c
                              ELSE Return(c, Arr(Append(s.ret.v, c.ret)))),
                     Return(st, Arr(<<>>)), input.v)
       ELSE createOne(st, input),
       LAMBDA r: IF r.err # "" THEN Throw(st, r.err) ELSE r)

\* create(input)
create(st, input) ==
  IF isArray(input)
  THEN FoldLeft(LAMBDA s, inp:
                  IF s.err # "" THEN s
                  ELSE With(createNode(s, inp), LAMBDA c:
                         IF c.err # "" THEN c
                         ELSE Return(c, Arr(Append(s.ret.v, c.ret)))),
                Return(st, Arr(<<>>)), input.v)
  ELSE createOne(st, input)

-----------------------------------------------------------------------------
\* update and delete

\* [x].flat()
flat(x) == IF isArray(x) THEN x.v ELSE <<x>>

\* { ...model }: the proxy's ownKeys lists the record's keys and then the keys
\* of this.relations[node.type] (a TypeError when the type has no relations or
\* when a key is listed twice); each key is read through the get trap.
ModelSpread(st, node) ==
  IF ~HasKey(relations, ToStr(Get(node, "type"))) THEN Throw(st, "TypeError")
  ELSE With([i \in 1..Len(ObjEntries(node)) |-> ObjEntries(node)[i][1]]
              \o [i \in 1..Len(ObjEntries(relationsForType(Get(node, "type")))) |->
                    ObjEntries(relationsForType(Get(node, "type")))[i][1]],
            LAMBDA keys:
              IF \E i, j \in 1..Len(keys) : i # j /\ keys[i] = keys[j]
              THEN Throw(st, "TypeError")
              ELSE FoldLeft(LAMBDA acc, key:
                              IF acc.err # "" THEN acc
                              ELSE With(ModelGet(st, node, key), LAMBDA g:
                                     IF g.err # "" THEN g
                                     ELSE Return(acc, Obj(Append(acc.ret.v, <<key, g.ret>>)))),
                            Return(st, Obj(<<>>)), keys))

getUpdateValueFields(node, updates) ==
  fromEntries(SelectSeq(ObjEntries(updates),
                        LAMBDA e: ~HasKey(relationsForType(Get(node, "type")), e[1])))

getUpdateRelationFields(node, updates) ==
  fromEntries(SelectSeq(ObjEntries(updates),
                        LAMBDA e: HasKey(relationsForType(Get(node, "type")), e[1])))

\* updateNodeValues(node, updateNodeFields): { ...node, ...updateNodeFields }
updateNodeValues(st, node, updateNodeFields) ==
  With(ModelSpread(st, node), LAMBDA own:
    IF own.err # "" THEN own ELSE Return(st, Spread(own.ret, updateNodeFields)))

\* Variant of updateNodeRelation that applies remove before add
updateNodeRelation_removeFirst(st, node, key, updateRelationField) ==
  IF updateRelationField.t = "undefined" THEN Throw(st, "TypeError")
  ELSE With(getRelation(Get(node, "type"), key), LAMBDA relation:
    With(parseRelation(relation).relatedType, LAMBDA relatedType:
      With(IF falsy(Get(updateRelationField, "remove")) THEN st
           ELSE With(find(st, makeQuery(relatedType, Get(updateRelationField, "remove"))),
                     LAMBDA removeNodes:
                       IF removeNodes.err # "" THEN removeNodes
                       ELSE removeEdgesFromRelation(st, node, relation, flat(removeNodes.ret))),
           LAMBDA removed:
             IF removed.err # "" \/ falsy(Get(updateRelationField, "add")) THEN removed
             ELSE With(find(removed, makeQuery(relatedType, Get(updateRelationField, "add"))),
                       LAMBDA addNodes:
                         IF addNodes.err # "" THEN addNodes
                         ELSE makeEdgesFromRelation(removed, node, relation,
                                                    flat(addNodes.ret))))))

\* updateNodeRelation(node, key, updateRelationField)
updateNodeRelation(st, node, key, updateRelationField) ==
  IF updateRelationField.t = "undefined" THEN Throw(st, "TypeError")
  ELSE With(getRelation(Get(node, "type"), key), LAMBDA relation:
    With(parseRelation(relation).relatedType, LAMBDA relatedType:
      With(IF falsy(Get(updateRelationField, "add")) THEN st
           ELSE With(find(st, makeQuery(relatedType, Get(updateRelationField, "add"))),
                     LAMBDA addNodes:
                       IF addNodes.err # "" THEN addNodes
                       ELSE makeEdgesFromRelation(st, node, relation, flat(addNodes.ret))),
           LAMBDA added:
             IF added.err # "" \/ falsy(Get(updateRelationField, "remove")) THEN added
             ELSE With(find(added, makeQuery(relatedType, Get(updateRelationField, "remove"))),
                       LAMBDA removeNodes:
                         IF removeNodes.err # "" THEN removeNodes
                         ELSE removeEdgesFromRelation(added, node, relation,
                                                      flat(removeNodes.ret))))))

\* updateNodeRelations(node, updateRelationFields)
updateNodeRelations(st, node, updateRelationFields) ==
  FoldLeft(LAMBDA s, e: IF s.err # "" THEN s ELSE updateNodeRelation(s, node, e[1], e[2]),
           st, ObjEntries(updateRelationFields))

\* updateNode(node, updates): ret is the new record
updateNode(st, node, updates) ==
  IF updates.t = "undefined" THEN Throw(st, "TypeError")
  ELSE With(updateNodeValues(st, node, getUpdateValueFields(node, updates)), LAMBDA newNode:
    IF newNode.err # "" THEN newNode
    ELSE With(updateNodeRelations(st, node, getUpdateRelationFields(node, updates)), LAMBDA s:
           IF s.err # "" THEN s ELSE Return(s, newNode.ret)))

\* update(input, updates): ret is the array of the models of the new records
update(st, input, updates) ==
  With(find(st, input), LAMBDA found:
    IF found.err # "" THEN found
    ELSE FoldLeft(LAMBDA s, n:
                    IF s.err # "" THEN s
                    ELSE With(updateNode(s, n, updates), LAMBDA u:
                           IF u.err # "" THEN u
                           ELSE Return(u, Arr(Append(s.ret.v, u.ret)))),
                  Return(st, Arr(<<>>)), flat(found.ret)))

\* delete(input): ret is the array of the removed records
delete(st, input) ==
  With(find(st, input), LAMBDA found:
    IF found.err # "" THEN found
    ELSE Return(FoldLeft(LAMBDA s, n:
                           With(removeEdgesFromNode(s, n), LAMBDA s1:
                             [s1 EXCEPT !.nodes = MapDelete(s1.nodes, Get(n, "id"))]),
                         st, flat(found.ret)),
                Arr(flat(found.ret))))

-----------------------------------------------------------------------------
\* The calls a behaviour draws from

O1(k1, v1) == Obj(<< <<k1, v1>> >>)
O2(k1, v1, k2, v2) == Obj(<< <<k1, v1>>, <<k2, v2>> >>)
O3(k1, v1, k2, v2, k3, v3) == Obj(<< <<k1, v1>>, <<k2, v2>>, <<k3, v3>> >>)
Ref(id) == O1("id", Str(id))

CreateInputs ==
  << O2("type", Str("user"), "username", Str("steve")),
     Arr(<< O2("type", Str("user"), "username", Str("steve")),
            O2("type", Str("user"), "username", Str("bob")) >>),
     O3("type", Str("user"), "username", Str("usersteve"),
        "authors", O1("name", Str("Steve O"))),
     O3("type", Str("user"), "username", Str("usteve"),
        "authors", Arr(<< O1("name", Str("Stevo")), O1("name", Str("Steven")) >>)),
     O3("type", Str("user"), "username", Str("usteve"),
        "authors", O2("name", Str("Steven"),
                      "documents", O2("title", Str("Welcome Steven"), "pages", Num(5)))),
     O3("type", Str("author"), "name", Str("Steve"), "documents", Arr(<< Ref("doc1") >>)),
     O3("type", Str("user"), "username", Str("again"), "authors", Arr(<< Ref("2") >>)),
     O3("type", Str("user"), "username", Str("partial"),
        "authors", Arr(<< O1("name", Str("Kept")), Ref("missing") >>)),
     Obj(<< <<"type", Str("document")>>, <<"title", Str("One")>>, <<"pages", Num(1)>>,
            <<"authors", O1("name", Str("Steve"))>> >>),
     O3("type", Str("user"), "username", Str("miskind"), "authors", Arr(<< Ref("doc1") >>)),
     O3("type", Str("author"), "name", Str("Steve"), "users", Arr(<< Ref("1") >>)),
     Arr(<< O2("type", Str("user"), "username", Str("before")),
            O3("type", Str("user"), "username", Str("failing"),
               "authors", Arr(<< Ref("missing") >>)),
            O2("type", Str("user"), "username", Str("after")) >>) >>

\* find({kind:'document', authors:[{users:[{id:'user1'}]}]})
DocsOfUser1 ==
  O2("type", Str("document"),
     "authors", Arr(<< O1("users", Arr(<< Ref("user1") >>)) >>))
PublicDocs == O2("type", Str("document"), "isPublic", Bool(TRUE))

Selectors ==
  << Str("author1"), Str("doc1"), Str("1"), Str("2"), Str("missing"),
     Arr(<< Str("doc1"), Str("doc2") >>),
     O1("type", Str("user")),
     DocsOfUser1,
     Arr(<< DocsOfUser1, PublicDocs >>),
     Arr(<< Str("doc1"), Str("missing") >>),
     Num(5),
     Bool(TRUE),
     Arr(<<>>) >>

\* find({type: 'author', documents: [{authors: [{id}]}]})
CoAuthorsOf(id) ==
  O2("type", Str("author"), "documents", Arr(<< O1("authors", Arr(<< Ref(id) >>)) >>))

\* Queries with an operator object of zero keys, of two keys or of an unknown
\* key, on a value field, on a relation field and under length
OperatorQueries ==
  << O2("type", Str("document"), "pages", Obj(<<>>)),
     O2("type", Str("document"), "pages", O2("gt", Num(1), "lt", Num(5))),
     O2("type", Str("document"), "pages", O1("between", Num(1))),
     O2("type", Str("author"), "documents", Obj(<<>>)),
     O2("type", Str("author"), "documents", O2("empty", Bool(TRUE), "length", Num(0))),
     O2("type", Str("author"), "documents", O1("some", Num(1))),
     O2("type", Str("author"), "documents", O1("length", Obj(<<>>))),
     O2("type", Str("author"), "documents", O1("length", O2("gt", Num(0), "lt", Num(3)))),
     O2("type", Str("author"), "documents", O1("length", O1("between", Num(1)))),
     O2("type", Str("author"), "documents", O1("length", O1("gte", Num(1)))),
     O2("type", Str("author"), "documents", O1("length", Num(0))),
     O2("type", Str("author"), "documents", O1("length", O1("gt", Num(1)))),
     CoAuthorsOf("author2"),
     O2("type", Str("person"), "knows", Arr(<< O1("knows", Arr(<< Ref("p1") >>)) >>)),
     O2("type", Str("author"), "documents", Arr(<< Obj(<<>>) >>)) >>

\* update('author1', {documents: {add: {id: 'doc2'}, remove: {id: 'doc1'}}})
AddDoc2RemoveDoc1 == O1("documents", O2("add", Ref("doc2"), "remove", Ref("doc1")))

\* The documents that have an author who owns a document that has an author
\* who owns the document id
SharesAuthorWithCoauthoredOf(id) ==
  O1("authors", Arr(<< O1("documents", Arr(<<
    O1("authors", Arr(<< O1("documents", Arr(<< Ref(id) >>)) >>)) >>)) >>))

\* update(selector, patch) calls
Updates ==
  << <<Str("1"), O1("username", Str("renamed"))>>,
     <<Str("doc1"), O1("title", Str("a new title"))>>,
     <<Arr(<< Str("doc1"), Str("doc2") >>), O1("title", Str("a new title"))>>,
     <<O1("type", Str("user")), O1("username", Str("renamed"))>>,
     <<Str("author1"), O1("type", Str("document"))>>,
     <<Str("1"), O1("type", Str("document"))>>,
     <<Str("author1"), O1("id", Str("other"))>>,
     <<Str("missing"), O1("title", Str("a new title"))>>,
     <<Str("author1"), AddDoc2RemoveDoc1>>,
     <<Str("author1"), O1("documents", O1("add", Ref("doc1")))>>,
     <<Str("author1"), O1("documents", O1("remove", Ref("doc1")))>>,
     <<Str("doc1"), O1("authors", O1("add", Ref("author1")))>>,
     <<Str("1"), O1("authors", O1("add", Ref("2")))>>,
     <<Str("1"), O1("authors", O1("remove", Ref("2")))>>,
     <<Str("2"), O1("users", O1("add", Ref("1")))>>,
     <<Str("author2"), O1("documents", O1("add", SharesAuthorWithCoauthoredOf("doc1")))>>,
     <<Arr(<< Str("doc1"), Str("missing") >>), O1("title", Str("a new title"))>>,
     <<Num(5), O1("title", Str("a new title"))>>,
     <<Str("author1"), O1("documents", O1("add", Ref("doc3")))>>,
     <<Str("doc3"), O1("authors", O1("add", Ref("author1")))>>,
     <<Str("author1"), O1("documents", O1("remove", Ref("doc3")))>>,
     <<Str("doc3"), O1("authors", O1("remove", Ref("author1")))>>,
     <<Str("author1"), O1("documents", O2("add", Ref("doc3"), "remove", Ref("doc3")))>>,
     <<Str("author1"), O1("documents", O2("add", Ref("doc1"), "remove", Ref("doc1")))>> >>

\* getRelatedNodes(from, key) calls
RelatedArgs ==
  << <<Str("author1"), "documents">>,
     <<Str("doc2"), "authors">>,
     <<Str("author1"), "friends">>,
     <<Str("1"), "authors">>,
     <<Str("1"), "friends">>,
     <<Str("missing"), "authors">> >>

\* getModel(from) calls
ModelIds == << Str("author1"), Str("1"), Str("missing") >>

-----------------------------------------------------------------------------
\* The state machine

Call(op, input, updates, r) ==
  [op |-> op, input |-> input, updates |-> updates, err |-> r.err, ret |-> r.ret]

Init ==
  \E i \in 1..Len(Snapshots) :
    /\ nodes = constructor(Snapshots[i]).nodes
    /\ edges = constructor(Snapshots[i]).edges
    /\ relations = constructor(Snapshots[i]).relations
    /\ idCount = 0
    /\ last = [op |-> "new", input |-> Undefined, updates |-> Undefined,
               err |-> "", ret |-> Undefined]
    /\ prev = last
    /\ calls = 0
    /\ entities = Obj(<<>>)
    /\ clock = 1
    /\ microtasks = <<>>
    /\ started = [base |-> Obj(<<>>), calls |-> <<>>]
    /\ outcome = [call |-> 0, err |-> "", ret |-> Undefined]
    /\ ncalls = 0

Apply(op, input, updates, r) ==
  /\ nodes' = r.nodes
  /\ edges' = r.edges
  /\ idCount' = r.idCount
  /\ last' = Call(op, input, updates, r)
  /\ prev' = last
  /\ calls' = calls + 1
  /\ UNCHANGED relations
  /\ UNCHANGED flatVars

Create ==
  \E i \in 1..Len(CreateInputs) :
    LET r == create(Repo(nodes, edges, idCount), CreateInputs[i])
    IN  /\ calls < MaxCalls
        /\ r.idCount <= MaxId
        /\ Apply("create", CreateInputs[i], Undefined, r)

Find ==
  \E i \in 1..Len(Selectors \o OperatorQueries) :
    LET r == find(Repo(nodes, edges, idCount), (Selectors \o OperatorQueries)[i])
    IN  /\ calls < MaxCalls
        /\ Apply("find", (Selectors \o OperatorQueries)[i], Undefined, r)

Update ==
  \E i \in 1..Len(Updates) :
    LET r == update(Repo(nodes, edges, idCount), Updates[i][1], Updates[i][2])
    IN  /\ calls < MaxCalls
        /\ Apply("update", Updates[i][1], Updates[i][2], r)

Delete ==
  \E i \in 1..Len(Selectors) :
    LET r == delete(Repo(nodes, edges, idCount), Selectors[i])
    IN  /\ calls < MaxCalls
        /\ Apply("delete", Selectors[i], Undefined, r)

\* getRelatedNodes(from, key): the key is recorded as the call's second argument
GetRelatedNodes ==
  \E i \in 1..Len(RelatedArgs) :
    LET r == getRelatedNodes(Repo(nodes, edges, idCount), RelatedArgs[i][1], RelatedArgs[i][2])
    IN  /\ calls < MaxCalls
        /\ Apply("getRelatedNodes", RelatedArgs[i][1], Str(RelatedArgs[i][2]), r)

GetModel ==
  \E i \in 1..Len(ModelIds) :
    LET r == getModel(Repo(nodes, edges, idCount), ModelIds[i])
    IN  /\ calls < MaxCalls
        /\ Apply("getModel", ModelIds[i], Undefined, r)

Next == Create \/ Find \/ Update \/ Delete \/ GetRelatedNodes \/ GetModel

Spec == Init /\ [][Next]_vars

-----------------------------------------------------------------------------
\* InMemoryRepository: the flat entity repository

\* The create and update functions the repository is constructed with:
\* (id, input) => ({ id, ...input }) and (entity, updates) => ({ ...entity,
\* ...updates })
createEntity(id, input) == Spread(O1("id", id), input)
updateEntity(entity, updates) == Spread(entity, updates)

isId(value) == typeof(value) = "string"

isIdList(value) ==
  isArray(value) /\ (typeof(Get(value, "0")) = "string" \/ Len(value.v) = 0)

isEntityQuery(value) ==
  \/ isArray(value) /\ typeof(Get(value, "0")) = "object"
  \/ typeof(value) = "object" /\ ~isArray(value)

\* matchQueryField(queryField, value): destructuring the first entry of an
\* operator object without entries throws a TypeError; 'not' is the only
\* operator of the switch.
matchQueryField(queryField, value) ==
  IF isArray(queryField)
  THEN Match(\E i \in 1..Len(queryField.v) : StrictEq(queryField.v[i], value))
  ELSE IF typeof(queryField) # "object"
  THEN Match(StrictEq(value, queryField))
  ELSE IF Len(ObjEntries(queryField)) = 0 THEN MatchThrow("TypeError")
  ELSE IF ObjEntries(queryField)[1][1] = "not"
  THEN Match(~StrictEq(value, ObjEntries(queryField)[1][2]))
  ELSE MatchThrow("ValidationError")

RECURSIVE matchEntity(_, _)
\* matchEntity(entity, query): query.map matches every subquery, so the first
\* that throws ends the call; the reduce stops calling matchQueryField once the
\* result is false.
matchEntity(entity, query) ==
  IF isArray(query)
  THEN With([k \in 1..Len(query.v) |-> matchEntity(entity, query.v[k])], LAMBDA results:
         IF \E k \in 1..Len(results) : results[k].err # ""
         THEN SelectSeq(results, LAMBDA r: r.err # "")[1]
         ELSE Match(\E k \in 1..Len(results) : results[k].ret))
  ELSE AndAlso(ObjEntries(query), LAMBDA e: matchQueryField(e[2], Get(entity, e[1])))

\* getNewId(): (new Date()).getTime() + ''
getNewId == Str(ToString(clock))

\* What a promise settles with: err is the name of the rejection ("" when it
\* is fulfilled), ret the value
Fulfilled(val) == [err |-> "", ret |-> val]
Rejected(name) == [err |-> name, ret |-> Undefined]

\* Promise.all(promises): rejected as the first rejected promise, or fulfilled
\* with the values
PromiseAll(promises) ==
  IF \E k \in 1..Len(promises) : promises[k].err # ""
  THEN SelectSeq(promises, LAMBDA p: p.err # "")[1]
  ELSE Fulfilled(Arr([k \in 1..Len(promises) |-> promises[k].ret]))

\* findById(id)
findById(ents, id) ==
  IF falsy(Get(ents, ToStr(id))) THEN Rejected("NotFoundError")
  ELSE Fulfilled(Get(ents, ToStr(id)))

\* findByIdList(ids)
findByIdList(ents, ids) ==
  PromiseAll([k \in 1..Len(ids.v) |-> findById(ents, ids.v[k])])

\* Object.values(this.entities).filter(entity => this.matchEntity(entity,
\* query)): rejected as the first matchEntity that throws
filterEntities(ents, query) ==
  With([k \in 1..Len(ents.v) |-> [entity |-> ents.v[k][2],
                                  m |-> matchEntity(ents.v[k][2], query)]], LAMBDA all:
    IF \E k \in 1..Len(all) : all[k].m.err # ""
    THEN Rejected(SelectSeq(all, LAMBDA r: r.m.err # "")[1].m.err)
    ELSE With(SelectSeq(all, LAMBDA r: r.m.ret), LAMBDA kept:
           Fulfilled(Arr([k \in 1..Len(kept) |-> kept[k].entity]))))

\* find(selector) of the flat repository
flatFind(ents, selector) ==
  IF isId(selector) THEN findById(ents, selector)
  ELSE IF isIdList(selector) THEN findByIdList(ents, selector)
  ELSE IF isEntityQuery(selector) THEN filterEntities(ents, selector)
  ELSE Rejected("ValidationError")

\* deleteById(id): the store after the call and what its promise settles with
deleteById(ents, id) ==
  IF falsy(Get(ents, ToStr(id)))
  THEN [entities |-> ents, promise |-> Rejected("NotFoundError")]
  ELSE [entities |-> Obj(SelectSeq(ents.v, LAMBDA e: e[1] # ToStr(id))),
        promise |-> Fulfilled(Get(ents, ToStr(id)))]

\* ids.map(id => this.deleteById(id)): every call of deleteById runs, in list
\* order, whatever the calls before it settled with
deleteEach(ents, ids) ==
  FoldLeft(LAMBDA acc, id:
             With(deleteById(acc.entities, id), LAMBDA d:
               [entities |-> d.entities, promises |-> Append(acc.promises, d.promise)]),
           [entities |-> ents, promises |-> <<>>], ids)

\* deleteByIdList(ids)
deleteByIdList(ents, ids) ==
  With(deleteEach(ents, ids.v), LAMBDA d:
    [entities |-> d.entities, promise |-> PromiseAll(d.promises)])

\* deleteByQuery(query)
deleteByQuery(ents, query) ==
  With(filterEntities(ents, query), LAMBDA found:
    IF found.err # "" THEN [entities |-> ents, promise |-> found]
    ELSE With(deleteEach(ents, [k \in 1..Len(found.ret.v) |-> Get(found.ret.v[k], "id")]),
              LAMBDA d: [entities |-> d.entities, promise |-> PromiseAll(d.promises)]))

\* delete(selector) of the flat repository
flatDelete(ents, selector) ==
  IF isId(selector) THEN deleteById(ents, selector)
  ELSE IF isIdList(selector) THEN deleteByIdList(ents, selector)
  ELSE IF isEntityQuery(selector) THEN deleteByQuery(ents, selector)
  ELSE [entities |-> ents, promise |-> Rejected("ValidationError")]

\* updateById(id, input) up to its await: findById has run and the rest of
\* the function waits in the microtask queue with what findById settled with.
\* call, selector and store record the call that queued it and the entities
\* at that time.
Continuation(ents, id, input, selector) ==
  [id |-> id, current |-> findById(ents, id), input |-> input,
   call |-> ncalls + 1, selector |-> selector, store |-> ents]

\* The ids update(selector, input) calls updateById with, in order
updatedIds(ents, selector) ==
  IF isId(selector) THEN Fulfilled(Arr(<< selector >>))
  ELSE IF isIdList(selector) THEN Fulfilled(selector)
  ELSE IF isEntityQuery(selector)
  THEN With(filterEntities(ents, selector), LAMBDA found:
         IF found.err # "" THEN found
         ELSE Fulfilled(Arr([k \in 1..Len(found.ret.v) |-> Get(found.ret.v[k], "id")])))
  ELSE Rejected("ValidationError")

\* The call started now, after the calls that have a continuation waiting
Started(op, selector, input) ==
  IF microtasks = <<>>
  THEN [base |-> entities,
        calls |-> << [op |-> op, selector |-> selector, input |-> input] >>]
  ELSE [started EXCEPT
          !.calls = Append(@, [op |-> op, selector |-> selector, input |-> input])]

FlatInputs == << O1("name", Str("a")), O2("name", Str("b"), "pages", Num(2)) >>

FlatPatches == << O1("name", Str("p")), O1("pages", Num(7)) >>

\* An id, a missing id, id lists with a missing id first and in the middle,
\* a query, an invalid selector
FlatSelectors ==
  << Str("1"), Str("9"),
     Arr(<< Str("9"), Str("1") >>),
     Arr(<< Str("1"), Str("9"), Str("2") >>),
     O1("name", Str("a")),
     Num(5) >>

\* Query fields: a scalar, lists of scalars, an operator object of each key,
\* and a list of queries
FlatQueries ==
  << O1("name", Str("a")),
     O1("pages", Num(2)),
     O1("name", Arr(<< Str("a"), Str("b") >>)),
     O1("pages", Arr(<<>>)),
     O1("pages", O1("eq", Num(2))),
     O1("pages", O1("ne", Num(2))),
     O1("pages", O1("lt", Num(3))),
     O1("pages", O1("lte", Num(2))),
     O1("pages", O1("gt", Num(1))),
     O1("pages", O1("gte", Num(2))),
     O1("name", O1("re", RegExp(<< "a" >>))),
     O1("name", O1("empty", Bool(FALSE))),
     O1("name", O1("length", Num(1))),
     O1("name", O1("includes", Str("a"))),
     O1("name", O1("not", Str("a"))),
     O1("pages", Obj(<<>>)),
     Arr(<< O1("name", Str("a")), O1("pages", Num(2)) >>) >>

FlatInit ==
  /\ nodes = constructor(noGraph).nodes
  /\ edges = constructor(noGraph).edges
  /\ relations = constructor(noGraph).relations
  /\ idCount = 0
  /\ last = [op |-> "new", input |-> Undefined, updates |-> Undefined,
             err |-> "", ret |-> Undefined]
  /\ prev = last
  /\ calls = 0
  /\ entities = Obj(<<>>)
  /\ clock = 1
  /\ microtasks = <<>>
  /\ started = [base |-> Obj(<<>>), calls |-> <<>>]
  /\ outcome = [call |-> 0, err |-> "", ret |-> Undefined]
  /\ ncalls = 0

\* The caller starts a call: it runs up to its first await
Begin(op, selector, input, promise) ==
  /\ ncalls < MaxFlatCalls
  /\ ncalls' = ncalls + 1
  /\ started' = Started(op, selector, input)
  /\ outcome' = [call |-> ncalls + 1, err |-> promise.err, ret |-> promise.ret]
  /\ UNCHANGED <<graphVars, clock>>

\* create(input)
FlatCreate ==
  \E i \in 1..Len(FlatInputs) :
    /\ Begin("create", Undefined, FlatInputs[i],
             Fulfilled(createEntity(getNewId, FlatInputs[i])))
    /\ entities' = Obj(SetEntry(entities.v, ToStr(getNewId),
                                createEntity(getNewId, FlatInputs[i])))
    /\ UNCHANGED microtasks

\* find(selector)
FlatFind ==
  \E i \in 1..Len(FlatSelectors \o FlatQueries) :
    /\ Begin("find", (FlatSelectors \o FlatQueries)[i], Undefined,
             flatFind(entities, (FlatSelectors \o FlatQueries)[i]))
    /\ UNCHANGED <<entities, microtasks>>

\* update(selector, input): every updateById runs up to its await
FlatUpdate ==
  \E i \in 1..Len(FlatSelectors), j \in 1..Len(FlatPatches) :
    \A ids \in {updatedIds(entities, FlatSelectors[i])} :
      /\ Begin("update", FlatSelectors[i], FlatPatches[j],
               IF ids.err # "" THEN ids
               ELSE IF isId(FlatSelectors[i]) THEN Fulfilled(Undefined)
               ELSE Fulfilled(Arr(<<>>)))
      /\ microtasks' =
           IF ids.err # "" THEN microtasks
           ELSE microtasks \o [k \in 1..Len(ids.ret.v) |->
                                 Continuation(entities, ids.ret.v[k], FlatPatches[j],
                                              FlatSelectors[i])]
      /\ UNCHANGED entities

\* delete(selector)
FlatDelete ==
  \E i \in 1..Len(FlatSelectors) :
    \A d \in {flatDelete(entities, FlatSelectors[i])} :
      /\ Begin("delete", FlatSelectors[i], Undefined, d.promise)
      /\ entities' = d.entities
      /\ UNCHANGED microtasks

\* The rest of updateById after its await: a rejected findById is thrown,
\* else the entity findById read is updated and stored.  The promise of the
\* call that queued it takes the rejection, or the updated entity.
RunMicrotask ==
  /\ microtasks # <<>>
  /\ \A t \in {Head(microtasks)} :
       /\ entities' =
            IF t.current.err # "" THEN entities
            ELSE Obj(SetEntry(entities.v, ToStr(t.id),
                              updateEntity(t.current.ret, t.input)))
       /\ outcome' =
            IF t.call # outcome.call \/ outcome.err # "" THEN outcome
            ELSE IF t.current.err # "" THEN [outcome EXCEPT !.err = t.current.err,
                                                           !.ret = Undefined]
            ELSE IF isArray(outcome.ret)
            THEN [outcome EXCEPT !.ret = Arr(Append(@.v, updateEntity(t.current.ret, t.input)))]
            ELSE [outcome EXCEPT !.ret = updateEntity(t.current.ret, t.input)]
  /\ microtasks' = Tail(microtasks)
  /\ UNCHANGED <<graphVars, clock, started, ncalls>>

\* A millisecond passes
Tick ==
  /\ clock < MaxClock
  /\ clock' = clock + 1
  /\ UNCHANGED <<graphVars, entities, microtasks, started, outcome, ncalls>>

FlatNext == FlatCreate \/ FlatFind \/ FlatUpdate \/ FlatDelete \/ RunMicrotask \/ Tick

FlatSpec == FlatInit /\ [][FlatNext]_vars

-----------------------------------------------------------------------------
\* Properties

\* The repository as it is now
Cur == Repo(nodes, edges, idCount)
SeedRepo == constructor(testGraph)
\* The store is the one constructed from the seed graph
OnSeed == nodes = SeedRepo.nodes /\ edges = SeedRepo.edges

\* The ids of an array of records
Ids(a) == [i \in 1..Len(a.v) |-> Get(a.v[i], "id").v]
\* The id was allocated by getNextId
IsGenerated(id) == \E k \in 1..idCount : id = Str(ToString(k))
\* key is a value field of the node's type other than id and type
IsValueField(node, key) ==
  key \notin {"id", "type"} /\ ~relationExists(Get(node, "type"), key)
SameTuple(e1, e2) ==
  /\ Get(e1, "from") = Get(e2, "from")
  /\ Get(e1, "type") = Get(e2, "type")
  /\ Get(e1, "to") = Get(e2, "to")

\* C1: after update(id, {f: v2}) on a node made by create, find(id) returns a
\* model whose field f equals v2.
UpdateRoundTrip ==
  (/\ last.op = "update"
   /\ last.err = ""
   /\ typeof(last.input) = "string"
   /\ IsGenerated(last.input))
  => \A i \in 1..Len(ObjEntries(last.updates)) :
       LET e == ObjEntries(last.updates)[i]
           found == find(Cur, last.input)
       IN  IsValueField(found.ret, e[1])
           => /\ found.err = ""
              /\ StrictEq(ModelGet(Cur, found.ret, e[1]).ret, e[2])

\* C2: on the seed graph, update('author1', {documents: {add: {id: 'doc2'},
\* remove: {id: 'doc1'}}}) leaves author1 owning exactly [doc2], and running
\* the same update again leaves the edge store unchanged.
IsS6(call) ==
  /\ call.op = "update"
  /\ call.input = Str("author1")
  /\ call.updates = AddDoc2RemoveDoc1
S6LeavesOnlyDoc2 ==
  [][/\ (OnSeed /\ IsS6(last'))
        => /\ last'.err = ""
           /\ Ids(getRelatedNodes(Repo(nodes', edges', idCount'),
                                  Str("author1"), "documents").ret) = <<"doc2">>
     /\ (IsS6(last) /\ last.err = "" /\ IsS6(last')) => edges' = edges]_vars

\* C3: the edge store holds at most one edge for each (from, kind, to).
EdgeUniqueness ==
  \A i, j \in 1..Len(edges) : SameTuple(edges[i].v, edges[j].v) => i = j

\* C4: every edge in the edge store joins two nodes of the node store.
EdgeEndpointsExist ==
  \A i \in 1..Len(edges) :
    /\ MapHas(nodes, Get(edges[i].v, "from"))
    /\ MapHas(nodes, Get(edges[i].v, "to"))
\* A create failed part-way after it had linked the node it made last.
CreateFailedAfterLinking ==
  /\ last.op = "create"
  /\ last.err = "TypeError"
  /\ \E i \in 1..Len(edges) : Get(edges[i].v, "to") = Str(ToString(idCount))

\* C5: after delete, each deleted node is absent from the node store and no
\* edge has its id as from or as to.
DeletedNodesLeaveNoEdge ==
  (last.op = "delete" /\ last.err = "")
  => \A i \in 1..Len(last.ret.v) :
       LET id == Get(last.ret.v[i], "id")
       IN  /\ ~MapHas(nodes, id)
           /\ \A j \in 1..Len(edges) :
                Get(edges[j].v, "from") # id /\ Get(edges[j].v, "to") # id
\* author1 of the seed graph, which had an edge in and an edge out, was deleted.
DeletedLinkedNode ==
  /\ last.op = "delete"
  /\ last.err = ""
  /\ last.input = Str("author1")
  /\ Len(edges) < Len(SeedRepo.edges)

\* C6: update never changes a node's id or kind: the stored record and the
\* model update returns keep the id and the kind the node had.
UpdateKeepsIdAndKind ==
  [][(last'.op = "update" /\ last'.err = "")
     => LET before == flat(find(Cur, last'.input).ret)
        IN  \A i \in 1..Len(before) :
              LET id == Get(before[i], "id")
                  kind == Get(before[i], "type")
                  stored == MapGet(nodes', id)
                  model == last'.ret.v[i]
              IN  /\ StrictEq(Get(stored, "id"), id)
                  /\ StrictEq(Get(stored, "type"), kind)
                  /\ StrictEq(Get(model, "id"), id)
                  /\ StrictEq(Get(model, "type"), kind)]_vars

Elements(sub) == IF isArray(sub) THEN sub.v ELSE <<sub>>
\* The entries of a create input that are relation entries for the type
RelationEntries(type, input) ==
  SelectSeq(ObjEntries(input),
            LAMBDA e: HasKey(relationsForType(type), e[1]) /\ ~falsy(e[2]))
ValueEntries(type, input) ==
  SelectSeq(ObjEntries(input), LAMBDA e: ~HasKey(relationsForType(type), e[1]))

RECURSIVE OnlyCreates(_, _)
\* The input tree holds nested create inputs only, no node ref
OnlyCreates(type, input) ==
  \A i \in 1..Len(RelationEntries(type, input)) :
    LET e == RelationEntries(type, input)[i]
        p == parseRelation(getRelation(type, e[1]))
    IN  \A j \in 1..Len(Elements(e[2])) :
          /\ ~isNodeRef(Elements(e[2])[j])
          /\ OnlyCreates(p.relatedType, Elements(e[2])[j])

\* Some relation of the child's type, the reciprocal of rel, lists the parent
ReachesBack(st, child, parent, rel) ==
  \E i \in 1..Len(ObjEntries(relationsForType(Get(child, "type")))) :
    LET back == ObjEntries(relationsForType(Get(child, "type")))[i]
        p == parseRelation(rel)
        q == parseRelation(back[2])
    IN  /\ q.direction # p.direction
        /\ q.edgeType = p.edgeType
        /\ q.relatedType = Get(parent, "type")
        /\ \E j \in 1..Len(getRelatedNodes(st, child, back[1]).ret.v) :
             Get(getRelatedNodes(st, child, back[1]).ret.v[j], "id") = Get(parent, "id")

RECURSIVE CreatedAsListed(_, _, _)
\* For every relation entry of the input, at any depth, the related nodes of
\* the node are the nodes made for the entry's elements, in order, nothing else
CreatedAsListed(st, node, input) ==
  \A i \in 1..Len(RelationEntries(Get(node, "type"), input)) :
    LET e == RelationEntries(Get(node, "type"), input)[i]
        rel == getRelation(Get(node, "type"), e[1])
        related == getRelatedNodes(st, node, e[1]).ret.v
    IN  /\ Len(related) = Len(Elements(e[2]))
        /\ \A j \in 1..Len(related) :
             /\ IsGenerated(Get(related[j], "id"))
             /\ \A k \in 1..Len(ValueEntries(Get(related[j], "type"), Elements(e[2])[j])) :
                  LET f == ValueEntries(Get(related[j], "type"), Elements(e[2])[j])[k]
                  IN  StrictEq(Get(related[j], f[1]), f[2])
             /\ ReachesBack(st, related[j], node, rel)
             /\ CreatedAsListed(st, related[j], Elements(e[2])[j])

\* C9: after create of a tree of nested create inputs, getRelatedNodes(parent,
\* name) returns, for every relation entry at any depth, exactly the nodes
\* created for its elements, in input order, and each child's reciprocal
\* relation reaches the parent.
CreateLinksExactlyItsChildren ==
  (last.op = "create" /\ last.err = "")
  => \A i \in 1..Len(flat(last.input)) :
       OnlyCreates(Get(flat(last.input)[i], "type"), flat(last.input)[i])
       => CreatedAsListed(Cur, flat(last.ret)[i], flat(last.input)[i])

\* C10: create followed by find(id) on the returned id yields a node whose
\* value fields are the non-relation fields of the input, with empty relation
\* lists when the input had no relation field; the i-th result of an array
\* input is the node of the i-th input.
CreateThenFind ==
  (last.op = "create" /\ last.err = "")
  => /\ Len(flat(last.ret)) = Len(flat(last.input))
     /\ \A i \in 1..Len(flat(last.input)) :
          LET input == flat(last.input)[i]
              type == Get(input, "type")
              found == find(Cur, Get(flat(last.ret)[i], "id"))
          IN  /\ found.err = ""
              /\ Len(ObjEntries(found.ret)) = 1 + Len(ValueEntries(type, input))
              /\ \A k \in 1..Len(ValueEntries(type, input)) :
                   StrictEq(Get(found.ret, ValueEntries(type, input)[k][1]),
                            ValueEntries(type, input)[k][2])
              /\ RelationEntries(type, input) = <<>>
                 => \A r \in 1..Len(ObjEntries(relationsForType(type))) :
                      ModelGet(Cur, found.ret,
                               ObjEntries(relationsForType(type))[r][1]).ret.v = <<>>

\* The (from, kind, to) tuples of an edge store
EdgeSet(e) ==
  {<<Get(e[i].v, "from"), Get(e[i].v, "type"), Get(e[i].v, "to")>> : i \in 1..Len(e)}
\* The call was a successful update(id, {relName: {add: q}})
IsAdd(call) ==
  /\ call.op = "update"
  /\ call.err = ""
  /\ typeof(call.input) = "string"
  /\ Len(ObjEntries(call.updates)) = 1
  /\ relationExists(Get(MapGet(nodes, call.input), "type"), ObjEntries(call.updates)[1][1])
  /\ Len(ObjEntries(ObjEntries(call.updates)[1][2])) = 1
  /\ HasKey(ObjEntries(call.updates)[1][2], "add")
SameCall(a, b) == a.op = b.op /\ a.input = b.input /\ a.updates = b.updates
\* No field of the add sub-query is a relation of the related kind
AddQueryReadsNoRelation(call) ==
  LET relName == ObjEntries(call.updates)[1][1]
      q == Get(ObjEntries(call.updates)[1][2], "add")
      type == Get(MapGet(nodes, call.input), "type")
      relatedType == parseRelation(getRelation(type, relName)).relatedType
  IN  \A i \in 1..Len(ObjEntries(q)) : ~relationExists(relatedType, ObjEntries(q)[i][1])

\* The same add was run twice and an edge it made is in the store.
AddedTwice ==
  /\ IsAdd(prev)
  /\ IsAdd(last)
  /\ SameCall(prev, last)
  /\ AddQueryReadsNoRelation(last)
  /\ \E i \in 1..Len(edges) :
       /\ last.input \in {Get(edges[i].v, "from"), Get(edges[i].v, "to")}
       /\ edges[i].k = Str(ToStr(Get(edges[i].v, "from")) \o "::"
                           \o ToStr(Get(edges[i].v, "type")) \o "::"
                           \o ToStr(Get(edges[i].v, "to")))
\* C11 as stated: for every sub-query q, running update(id, {relName: {add:
\* q}}) twice produces the same edge set as running it once.
AddTwiceSameEdgeSet ==
  [][(IsAdd(last) /\ IsAdd(last') /\ SameCall(last, last'))
     => EdgeSet(edges') = EdgeSet(edges)]_vars
\* C11 as amended: when no field of q is a relation of the related kind (q
\* reads no edge), the second run of update(id, {relName: {add: q}}) leaves
\* the edge store as the first run left it.
AddTwiceSameEdges ==
  [][(IsAdd(last) /\ IsAdd(last') /\ SameCall(last, last')
      /\ AddQueryReadsNoRelation(last))
     => edges' = edges]_vars

\* The relation entries <<name, relation>> of a node's kind
RelationsOf(node) == ObjEntries(relationsForType(Get(node, "type")))
\* rB, of B's kind, is the reciprocal of rA, of A's kind: the opposite
\* direction, the same edge kind, each reaching the other's kind
Reciprocal(A, rA, B, rB) ==
  /\ parseRelation(rA).direction # parseRelation(rB).direction
  /\ parseRelation(rA).edgeType = parseRelation(rB).edgeType
  /\ parseRelation(rA).relatedType = Get(B, "type")
  /\ parseRelation(rB).relatedType = Get(A, "type")
\* The node is in the list getRelatedNodes(from, key) returns
IsRelated(node, from, key) ==
  \E related \in {getRelatedNodes(Cur, from, key).ret.v} :
    \E k \in 1..Len(related) : Get(related[k], "id") = Get(node, "id")

\* C12: when A's kind has relation rA reaching B's kind and B's kind has the
\* reciprocal relation rB, B is in getRelatedNodes(A, rA) if and only if A
\* is in getRelatedNodes(B, rB).
\* (Of two reciprocal relations one has direction 'to': A ranges over the
\* nodes on that side, B over the nodes of the kind it reaches.)
SymmetricTraversal ==
  \A i \in 1..Len(nodes) :
    \A rA \in {RelationsOf(nodes[i].v)} :
      \A a \in 1..Len(rA) :
        parseRelation(rA[a][2]).direction = "to"
        => \A fromA \in {Ids(getRelatedNodes(Cur, nodes[i].v, rA[a][1]).ret)} :
             \A j \in 1..Len(nodes) :
               Get(nodes[j].v, "type") = parseRelation(rA[a][2]).relatedType
               => \A rB \in {RelationsOf(nodes[j].v)} :
                    \A b \in 1..Len(rB) :
                      Reciprocal(nodes[i].v, rA[a][2], nodes[j].v, rB[b][2])
                      => ((\E k \in 1..Len(fromA) : fromA[k] = nodes[j].k.v)
                          <=> IsRelated(nodes[i].v, nodes[j].v, rB[b][1]))
\* A node that create made is related, in both directions, to another node.
LinkedBothWays ==
  \E i, j \in 1..Len(nodes) :
    \E a \in 1..Len(RelationsOf(nodes[i].v)), b \in 1..Len(RelationsOf(nodes[j].v)) :
      /\ IsGenerated(nodes[j].k)
      /\ parseRelation(RelationsOf(nodes[i].v)[a][2]).direction = "to"
      /\ Reciprocal(nodes[i].v, RelationsOf(nodes[i].v)[a][2],
                    nodes[j].v, RelationsOf(nodes[j].v)[b][2])
      /\ IsRelated(nodes[j].v, nodes[i].v, RelationsOf(nodes[i].v)[a][1])
      /\ IsRelated(nodes[i].v, nodes[j].v, RelationsOf(nodes[j].v)[b][1])

\* The node models a call returned
ModelsOf(call) == SelectSeq(flat(call.ret), LAMBDA m : isObject(m))
\* Reading model[rel] now gives the nodes getRelatedNodes gives on the
\* current edge store
ShowsCurrentRelations(model) ==
  \A a \in 1..Len(RelationsOf(MapGet(nodes, Get(model, "id")))) :
    LET rel == RelationsOf(MapGet(nodes, Get(model, "id")))[a][1]
    IN  /\ ModelGet(Cur, model, rel).err = ""
        /\ isArray(ModelGet(Cur, model, rel).ret)
        /\ Ids(ModelGet(Cur, model, rel).ret)
             = Ids(getRelatedNodes(Cur, Get(model, "id"), rel).ret)

\* C13: for every node model that create, find, update or getModel returned,
\* reading a relation attribute returns the nodes of getRelatedNodes on the
\* current edge store; the model update returns shows the relation lists as
\* they are after the update's directives were applied.
NodeModelsNeverStale ==
  (/\ last.op \in {"create", "find", "update", "getModel"}
   /\ last.err = "")
  => \A i \in 1..Len(ModelsOf(last)) :
       MapHas(nodes, Get(ModelsOf(last)[i], "id"))
       => ShowsCurrentRelations(ModelsOf(last)[i])

\* C14: every node create makes, top-level or nested, gets an id that no node
\* in the node store has at that moment, snapshot nodes included: create
\* overwrites no node record, stores one new record per id it allocates, and
\* the id in each record is the key the record is stored under.
CreateAllocatesFreshIds ==
  [][last'.op = "create"
     => /\ \A i \in 1..Len(nodes) :
             /\ MapHas(nodes', nodes[i].k)
             /\ MapGet(nodes', nodes[i].k) = nodes[i].v
        /\ Len(nodes') = Len(nodes) + (idCount' - idCount)
        /\ \A j \in 1..Len(nodes') : Get(nodes'[j].v, "id") = nodes'[j].k]_vars

\* The selector is an id, or a list of ids, and names an id that has no node
NamesMissingId(input) ==
  \/ typeof(input) = "string" /\ ~MapHas(nodes, input)
  \/ /\ isArray(input)
     /\ \A i \in 1..Len(input.v) : typeof(input.v[i]) = "string"
     /\ \E i \in 1..Len(input.v) : ~MapHas(nodes, input.v[i])

\* C15: find, update and delete called with an id that has no node, or with
\* an id list one of whose ids has no node, fail with a NotFound error.
MissingIdIsNotFound ==
  [][(last'.op \in {"find", "update", "delete"} /\ NamesMissingId(last'.input))
     => last'.err = "NotFoundError"]_vars

\* The node refs among the relation entries of a create input that point to
\* no node, or to a node whose kind is not the relation's related kind
BadRefs(input) ==
  {ref \in UNION {{Elements(RelationEntries(Get(input, "type"), input)[i][2])[k] :
                     k \in 1..Len(Elements(RelationEntries(Get(input, "type"), input)[i][2]))} :
                   i \in 1..Len(RelationEntries(Get(input, "type"), input))} :
     /\ isNodeRef(ref)
     /\ \/ ~MapHas(nodes, Get(ref, "id"))
        \/ \E i \in 1..Len(RelationEntries(Get(input, "type"), input)) :
             /\ \E k \in 1..Len(Elements(RelationEntries(Get(input, "type"), input)[i][2])) :
                  Elements(RelationEntries(Get(input, "type"), input)[i][2])[k] = ref
             /\ Get(MapGet(nodes, Get(ref, "id")), "type")
                  # parseRelation(getRelation(Get(input, "type"),
                       RelationEntries(Get(input, "type"), input)[i][1])).relatedType}

\* C16: a create whose relation entry holds a node ref to a nonexistent node,
\* or to a node whose kind differs from the relation's related kind, fails
\* with a Validation error and inserts no edge to that ref.
CreateValidatesNodeRefs ==
  [][(last'.op = "create" /\ isObject(last'.input) /\ ~isArray(last'.input))
     => \A ref \in BadRefs(last'.input) :
          /\ last'.err = "ValidationError"
          /\ \A j \in 1..Len(edges') :
               (\/ Get(edges'[j].v, "from") = Get(ref, "id")
                \/ Get(edges'[j].v, "to") = Get(ref, "id"))
               => \E i \in 1..Len(edges) : edges[i] = edges'[j]]_vars

\* C17: find, update and delete given a selector that is not an id, an id
\* list, an object or a list of objects (a number, a boolean) fail with a
\* Validation error and change no state.
MalformedSelectorIsRejected ==
  [][(/\ last'.op \in {"find", "update", "delete"}
      /\ last'.input.t \in {"number", "boolean"})
     => /\ last'.err = "ValidationError"
        /\ nodes' = nodes
        /\ edges' = edges
        /\ idCount' = idCount]_vars

KnownOperators ==
  {"eq", "ne", "lt", "lte", "gt", "gte", "re", "empty", "length", "includes"}
RECURSIVE OperatorError(_)
\* The error an operator object is to fail with: Validation for zero keys or
\* for more than one, NotImplemented for a single unknown key, that of the
\* nested operator under length, "" for a well-formed operator
OperatorError(operator) ==
  IF Len(ObjEntries(operator)) # 1 THEN "ValidationError"
  ELSE IF ObjEntries(operator)[1][1] \notin KnownOperators THEN "NotImplementedError"
  ELSE IF ObjEntries(operator)[1][1] = "length" /\ isObject(ObjEntries(operator)[1][2])
  THEN OperatorError(ObjEntries(operator)[1][2])
  ELSE ""
\* The query is {type, field: operator object}
IsOperatorQuery(query) ==
  /\ isObject(query) /\ ~isArray(query)
  /\ Len(ObjEntries(query)) = 2
  /\ ObjEntries(query)[1][1] = "type"
  /\ isObject(ObjEntries(query)[2][2]) /\ ~isArray(ObjEntries(query)[2][2])
\* find was called with an operator query on a kind that has nodes, so that
\* the matcher evaluated the operator; an operator under length is reached
\* when the field has a length, as the list of a relation field has
MatchedOperator(call) ==
  /\ call.op = "find"
  /\ IsOperatorQuery(call.input)
  /\ findByType(Cur, Get(call.input, "type")) # <<>>
  /\ (/\ Len(ObjEntries(ObjEntries(call.input)[2][2])) = 1
      /\ HasKey(ObjEntries(call.input)[2][2], "length"))
     => relationExists(Get(call.input, "type"), ObjEntries(call.input)[2][1])

UnknownRelationHasNoNodes ==
  (/\ last.op = "getRelatedNodes"
   /\ MapHas(nodes, last.input)
   /\ ~relationExists(Get(MapGet(nodes, last.input), "type"), last.updates.v))
  => /\ last.err = ""
     /\ last.ret = Arr(<<>>)

\* The id the counter value k stands for
IdOf(k) == Str(ToString(k))
\* The record carries the value fields of the create input
CarriesValuesOf(record, input) ==
  \A i \in 1..Len(ValueEntries(Get(input, "type"), input)) :
    StrictEq(Get(record, ValueEntries(Get(input, "type"), input)[i][1]),
             ValueEntries(Get(input, "type"), input)[i][2])
\* The top-level input at which create(input) fails in the current state:
\* the inputs before it are created without error
FailingIndex(input) ==
  CHOOSE f \in 1..Len(flat(input)) :
    /\ create(Cur, Arr(SubSeq(flat(input), 1, f))).err # ""
    /\ \A g \in 1..(f - 1) : create(Cur, Arr(SubSeq(flat(input), 1, g))).err = ""
\* The store after the inputs before the failing one were created
BeforeFailure(input) ==
  create(Cur, Arr(SubSeq(flat(input), 1, FailingIndex(input) - 1)))
\* The step is a create that failed
CreateFails == last'.op = "create" /\ last'.err # ""

SetsOf(input) == create(Cur, input).sets
\* The position of the call that stored the node id (0 when there is none)
NodeSetAt(sets, id) ==
  IF \E q \in 1..Len(sets) : sets[q].map = "nodes" /\ sets[q].key = id
  THEN CHOOSE q \in 1..Len(sets) : sets[q].map = "nodes" /\ sets[q].key = id
  ELSE 0
Endpoints(set) == {Get(set.val, "from"), Get(set.val, "to")}
\* The nodes the call made for the relation entries of the node a: they were
\* stored after a, and an edge the call inserted joins them to a
ChildrenOf(sets, a) ==
  {b \in {sets[q].key : q \in {q \in 1..Len(sets) : sets[q].map = "nodes"}} :
     /\ NodeSetAt(sets, a) < NodeSetAt(sets, b)
     /\ \E p \in 1..Len(sets) : sets[p].map = "edges" /\ Endpoints(sets[p]) = {a, b}}
RECURSIVE SubtreeOf(_, _)
\* The node b and the nodes made below it
SubtreeOf(sets, b) == {b} \cup UNION {SubtreeOf(sets, c) : c \in ChildrenOf(sets, b)}
\* The call at position q stores a node of the set, or an edge at one of them
Touches(set, ids) ==
  IF set.map = "nodes" THEN set.key \in ids ELSE Endpoints(set) \cap ids # {}
\* When an edge is inserted both its endpoints are in the node store
EndpointsStored(before, sets) ==
  \A p \in 1..Len(sets) :
    sets[p].map = "edges"
    => \A id \in Endpoints(sets[p]) :
         MapHas(before, id) \/ (NodeSetAt(sets, id) > 0 /\ NodeSetAt(sets, id) < p)
\* When the edge between a parent and a child is inserted, the child's
\* subtree is complete: no later call stores a node or an edge of it
ChildrenComplete(sets) ==
  \A p \in 1..Len(sets) :
    sets[p].map = "edges"
    => \A a \in Endpoints(sets[p]) : \A b \in Endpoints(sets[p]) \cap ChildrenOf(sets, a) :
         /\ NodeSetAt(sets, b) < p
         /\ \A q \in (p + 1)..Len(sets) : ~Touches(sets[q], SubtreeOf(sets, b))
\* The elements of an array input are processed in input order: the k-th
\* result is the node of the k-th input, and everything made for it is stored
\* before the node of the next input
InInputOrder(sets, input, ret) ==
  \A k \in 1..Len(input) :
    /\ \A e \in 1..Len(ValueEntries(Get(input[k], "type"), input[k])) :
         Get(ret[k], ValueEntries(Get(input[k], "type"), input[k])[e][1])
           = ValueEntries(Get(input[k], "type"), input[k])[e][2]
    /\ NodeSetAt(sets, Get(ret[k], "id")) > 0
    /\ \A j \in (k + 1)..Len(input) :
         \A q \in 1..Len(sets) :
           Touches(sets[q], SubtreeOf(sets, Get(ret[k], "id")))
           => q < NodeSetAt(sets, Get(ret[j], "id"))

\* C21: inside create, every child of a relation entry is created, with its
\* own subtree, before the edge between the parent and that child is inserted,
\* both endpoints of an edge are in the node store when it is inserted, and the
\* elements of an array input are processed in input order.
CreateOrdering ==
  [][last'.op = "create"
     => \A sets \in {SetsOf(last'.input)} :
          /\ EndpointsStored(nodes, sets)
          /\ ChildrenComplete(sets)
          /\ (last'.err = "" /\ isArray(last'.input))
             => InInputOrder(sets, last'.input.v, last'.ret.v)]_vars
\* A create of a user with a nested author that has a nested document was
\* made: it stored three nodes and inserted two edges.
CreatedTwoLevels ==
  /\ last.op = "create"
  /\ last.err = ""
  /\ ~isArray(last.input)
  /\ \E a \in 1..Len(ModelGet(Cur, last.ret, "authors").ret.v) :
       ModelGet(Cur, ModelGet(Cur, last.ret, "authors").ret.v[a], "documents").ret.v # <<>>

\* The ids a call stored nodes under, in the order it stored them
StoredIds(sets) ==
  [q \in 1..Len(SelectSeq(sets, LAMBDA set: set.map = "nodes")) |->
     SelectSeq(sets, LAMBDA set: set.map = "nodes")[q].key]

\* C22: graph id generation is a monotone counter: the k-th id allocated over
\* the lifetime of the instance is the decimal string of k, a parent receives
\* its id before its nested children, ids strictly increase in allocation order
\* and an id freed by delete is never allocated again.
IdsAreAMonotoneCounter ==
  [][last'.op = "create"
     => \A ids \in {StoredIds(SetsOf(last'.input))} :
          \* the ids are the next values of the counter, in order
          /\ \A q \in 1..Len(ids) : ids[q] = IdOf(idCount + q)
          /\ idCount' >= idCount + Len(ids)
          \* the node of a single input has the first of them
          /\ (last'.err = "" /\ ~isArray(last'.input))
             => Get(last'.ret, "id") = IdOf(idCount + 1)
          \* none of them is the id of a node the call before deleted
          /\ (last.op = "delete" /\ last.err = "")
             => \A q \in 1..Len(ids) : \A d \in 1..Len(flat(last.ret)) :
                  ids[q] # Get(flat(last.ret)[d], "id")]_vars

\* The input is a list of query objects
IsQueryList(input) ==
  isArray(input) /\ input.v # <<>> /\ \A k \in 1..Len(input.v) : input.v[k].t = "object"
\* The results of each query of the list, taken alone in the current state
EachAlone(queries) == [k \in 1..Len(queries) |-> find(Cur, queries[k])]
RECURSIVE Concatenated(_)
Concatenated(results) ==
  IF results = <<>> THEN <<>> ELSE Head(results).ret.v \o Concatenated(Tail(results))

\* C23: find given a list of query objects returns the concatenation, in list
\* order, of the results of each query taken alone, without deduplication: a
\* node that satisfies k of the queries appears k times.
FindListConcatenates ==
  (last.op = "find" /\ IsQueryList(last.input))
  => \A each \in {EachAlone(last.input.v)} :
       IF \A k \in 1..Len(each) : each[k].err = ""
       THEN /\ last.err = ""
            /\ last.ret.v = Concatenated(each)
            /\ \A n \in 1..Len(nodes) :
                 Cardinality({i \in 1..Len(last.ret.v) : last.ret.v[i] = nodes[n].v})
                   = Cardinality({k \in 1..Len(each) :
                                   \E i \in 1..Len(each[k].ret.v) :
                                     each[k].ret.v[i] = nodes[n].v})
       ELSE last.err # ""
\* find of a list of two queries returned a node twice
FoundANodeTwice ==
  /\ last.op = "find"
  /\ last.err = ""
  /\ IsQueryList(last.input)
  /\ Len(last.input.v) = 2
  /\ \E i, j \in 1..Len(last.ret.v) : i < j /\ last.ret.v[i] = last.ret.v[j]

\* The input of find is a list of ids
IsIdList(input) ==
  isArray(input) /\ \A k \in 1..Len(input.v) : input.v[k].t = "string"
\* The input of find is a single query object that declares a kind
IsKindQuery(input) == input.t = "object" /\ Get(input, "type").t = "string"
\* The stored nodes of the query's kind that satisfy the matcher, in the order
\* of the node store
Satisfying(query) ==
  SelectSeq([n \in 1..Len(nodes) |-> nodes[n].v],
            LAMBDA node: /\ Get(node, "type") = Get(query, "type")
                         /\ matchesNodeQuery(Cur, node, query).ret = TRUE)
\* Snapshot nodes come first, created nodes follow in creation order
SnapshotThenCreated(ids) ==
  \A i, j \in 1..Len(ids) :
    i < j => /\ ~(IsGenerated(Str(ids[i])) /\ ~IsGenerated(Str(ids[j])))
             /\ \A a, b \in 1..idCount :
                  (Str(ids[i]) = IdOf(a) /\ Str(ids[j]) = IdOf(b)) => a < b

\* C24: find of an id list returns one model per listed id in list order (the
\* empty list gives the empty result); find of a query returns exactly the
\* nodes of the declared kind that satisfy the matcher, in node-store insertion
\* order, that is snapshot nodes in snapshot order and then created nodes in
\* creation order; a query holding only a kind returns every node of the kind.
FindResultOrdering ==
  (last.op = "find" /\ last.err = "")
  => /\ IsIdList(last.input)
        => Ids(last.ret) = [k \in 1..Len(last.input.v) |-> last.input.v[k].v]
     /\ IsKindQuery(last.input)
        => /\ Ids(last.ret) = Ids(Arr(Satisfying(last.input)))
           /\ SnapshotThenCreated(Ids(last.ret))
           /\ Len(last.input.v) = 1
              => Ids(last.ret)
                   = Ids(Arr(SelectSeq([n \in 1..Len(nodes) |-> nodes[n].v],
                                       LAMBDA node: Get(node, "type") = Get(last.input, "type"))))
\* The same statement with insertion order read as the order of the node store
FindResultInStoreOrder ==
  (last.op = "find" /\ last.err = "")
  => /\ IsIdList(last.input)
        => Ids(last.ret) = [k \in 1..Len(last.input.v) |-> last.input.v[k].v]
     /\ IsKindQuery(last.input)
        => Ids(last.ret) = Ids(Arr(Satisfying(last.input)))

\* The query declares a kind and holds one relation field whose value is an
\* operator object with the single key length
IsLengthQuery(input) ==
  /\ IsKindQuery(input)
  /\ Len(input.v) = 2
  /\ input.v[1][1] = "type"
  /\ relationExists(input.v[1][2], input.v[2][1])
  /\ input.v[2][2].t = "object"
  /\ Len(input.v[2][2].v) = 1
  /\ input.v[2][2].v[1][1] = "length"
\* The list getRelatedNodes gives for the node through the relation
RelatedList(node, rel) == getRelatedNodes(Cur, node, rel).ret.v
\* The number of nodes related to the node through the relation
RelatedCount(node, rel) ==
  Cardinality({RelatedList(node, rel)[k] : k \in 1..Len(RelatedList(node, rel))})
\* {length: n} holds iff the count equals n, {length: op} applies op to it
LengthHolds(count, rvalue) ==
  IF rvalue.t = "object" THEN matchesOperator(Num(count), rvalue).ret = TRUE
  ELSE rvalue = Num(count)
\* The ids of the nodes of the query's kind whose count satisfies the operator
WithLength(input, Count(_, _)) ==
  Ids(Arr(SelectSeq([n \in 1..Len(nodes) |-> nodes[n].v],
                    LAMBDA node: /\ Get(node, "type") = input.v[1][2]
                                 /\ LengthHolds(Count(node, input.v[2][1]),
                                                input.v[2][2].v[1][2]))))
AuthorsWithDocuments(length) ==
  O2("type", Str("author"), "documents", O1("length", length))

\* C25: a relation query field holding a length operator is evaluated against
\* the number of related nodes: {length: n} matches iff the count equals n and
\* {length: op} applies op to the count; on the seed graph the authors with
\* {length: 0} documents are [author4], those with {length: {gt: 1}} [author3].
LengthCountsRelatedNodes ==
  (last.op = "find" /\ last.err = "" /\ IsLengthQuery(last.input))
  => /\ Ids(last.ret) = WithLength(last.input, RelatedCount)
     /\ (OnSeed /\ last.input = AuthorsWithDocuments(Num(0)))
        => Ids(last.ret) = << "author4" >>
     /\ (OnSeed /\ last.input = AuthorsWithDocuments(O1("gt", Num(1))))
        => Ids(last.ret) = << "author3" >>
\* The same statement with the count taken as the length of the list that
\* getRelatedNodes gives, a node related by two edges counting twice
LengthCountsRelatedList ==
  (last.op = "find" /\ last.err = "" /\ IsLengthQuery(last.input))
  => /\ Ids(last.ret)
          = WithLength(last.input, LAMBDA node, rel: Len(RelatedList(node, rel)))
     /\ (OnSeed /\ last.input = AuthorsWithDocuments(Num(0)))
        => Ids(last.ret) = << "author4" >>
     /\ (OnSeed /\ last.input = AuthorsWithDocuments(O1("gt", Num(1))))
        => Ids(last.ret) = << "author3" >>

\* The call was a successful update(n, {rel: {remove: q}}) on a stored node
IsRemove(call) ==
  /\ call.op = "update"
  /\ call.err = ""
  /\ typeof(call.input) = "string"
  /\ MapHas(nodes, call.input)
  /\ Len(ObjEntries(call.updates)) = 1
  /\ relationExists(Get(MapGet(nodes, call.input), "type"), ObjEntries(call.updates)[1][1])
  /\ Len(ObjEntries(ObjEntries(call.updates)[1][2])) = 1
  /\ HasKey(ObjEntries(call.updates)[1][2], "remove")
\* The stored records the sub-query q of the remove directive matches
RemoveMatches(n, rel, q) ==
  flat(find(Cur, makeQuery(parseRelation(getRelation(Get(n, "type"), rel)).relatedType, q)).ret)
\* The store holds the edge create or update's add inserts between n and t
\* through the relation
EngineMade(es, n, rel, t) ==
  MapHas(es, getEdgeId(n, t, getRelation(Get(n, "type"), rel)))
\* t is in the list getRelatedNodes(from, key) gives on the edge store es
RelatedOn(es, t, from, key) ==
  \E related \in {getRelatedNodes(Repo(nodes, es, idCount), from, key).ret.v} :
    \E k \in 1..Len(related) : Get(related[k], "id") = Get(t, "id")
\* The edges of n whose other end is none of the nodes ts
EdgesToOthers(es, n, ts) ==
  SelectSeq(es, LAMBDA e:
    \/ /\ Get(e.v, "from") = Get(n, "id")
       /\ \A k \in 1..Len(ts) : Get(e.v, "to") # Get(ts[k], "id")
    \/ /\ Get(e.v, "to") = Get(n, "id")
       /\ \A k \in 1..Len(ts) : Get(e.v, "from") # Get(ts[k], "id"))
\* The remove left n and t unrelated, from both sides
Unlinked(es, n, rel, t) ==
  /\ ~EngineMade(es, n, rel, t)
  /\ ~RelatedOn(es, t, n, rel)
  /\ \A b \in 1..Len(RelationsOf(t)) :
       Reciprocal(n, getRelation(Get(n, "type"), rel), t, RelationsOf(t)[b][2])
       => ~RelatedOn(es, n, t, RelationsOf(t)[b][1])
\* The store holds one edge at most between n and t with the relation's kind
SingleEdge(es, n, rel, t) ==
  Cardinality({i \in 1..Len(es) :
                 /\ {Get(es[i].v, "from"), Get(es[i].v, "to")} = {Get(n, "id"), Get(t, "id")}
                 /\ Get(es[i].v, "type")
                      = parseRelation(getRelation(Get(n, "type"), rel)).edgeType}) <= 1

\* C30: update's remove directive undoes engine-made links: when the edge
\* between n and t was inserted by create or by update's add through relation
\* rel, update(n, {rel: {remove: q}}) with q matching t deletes that edge, so
\* afterwards t is not in getRelatedNodes(n, rel) and n is not in t's
\* reciprocal relation list; the edges of n to nodes q does not match are
\* unchanged.
RemoveUndoesEngineLinks ==
  [][IsRemove(last')
     => \A n \in {MapGet(nodes, last'.input)} :
        \A rel \in {ObjEntries(last'.updates)[1][1]} :
        \A ts \in {RemoveMatches(n, rel, Get(ObjEntries(last'.updates)[1][2], "remove"))} :
          /\ \A k \in 1..Len(ts) :
               EngineMade(edges, n, rel, ts[k]) => Unlinked(edges', n, rel, ts[k])
          /\ EdgesToOthers(edges', n, ts) = EdgesToOthers(edges, n, ts)]_vars
\* The same statement for the pairs n, t that the store links by no second
\* edge of the relation's kind
RemoveUndoesSingleEngineLinks ==
  [][IsRemove(last')
     => \A n \in {MapGet(nodes, last'.input)} :
        \A rel \in {ObjEntries(last'.updates)[1][1]} :
        \A ts \in {RemoveMatches(n, rel, Get(ObjEntries(last'.updates)[1][2], "remove"))} :
          /\ \A k \in 1..Len(ts) :
               (EngineMade(edges, n, rel, ts[k]) /\ SingleEdge(edges, n, rel, ts[k]))
               => Unlinked(edges', n, rel, ts[k])
          /\ EdgesToOthers(edges', n, ts) = EdgesToOthers(edges, n, ts)]_vars

\* The call of the flat repository started last
LastCall == started.calls[Len(started.calls)]
\* The entities of the store, in the order of Object.values
EntityList == [k \in 1..Len(entities.v) |-> entities.v[k][2]]
IsScalar(x) == x.t \in {"string", "number", "boolean"}
ValueOperators ==
  {"eq", "ne", "lt", "lte", "gt", "gte", "re", "empty", "length", "includes"}
\* A scalar, a list of scalars, or an operator object with one key
IsValueQueryField(field) ==
  \/ IsScalar(field)
  \/ isArray(field) /\ \A i \in 1..Len(field.v) : IsScalar(field.v[i])
  \/ /\ field.t = "object"
     /\ Len(field.v) = 1
     /\ field.v[1][1] \in ValueOperators
\* Both matchers return the same boolean, or both throw
SameMatch(a, b) == (a.err = "") = (b.err = "") /\ (a.err = "" => a.ret = b.ret)
\* The flat matcher and the graph's value-field matcher agree on every field
\* of the query that satisfies Claimed, for every entity of the store
MatchersAgree(query, Claimed(_)) ==
  \A k \in 1..Len(EntityList) :
    \A i \in 1..Len(query.v) :
      Claimed(query.v[i][2])
      => SameMatch(matchQueryField(query.v[i][2], Get(EntityList[k], query.v[i][1])),
                   matchesValueQueryField(EntityList[k], query.v[i][1], query.v[i][2]))

\* C26: for every entity field value and every query field (a scalar, a list
\* of scalars, or an operator object with one key among eq, ne, lt, lte, gt,
\* gte, re, empty, length, includes), the flat repository's matchEntity gives
\* the same result as the graph repository's value-field matcher.
FlatMatcherAgrees ==
  (ncalls > 0 /\ LastCall.op = "find" /\ LastCall.selector.t = "object")
  => MatchersAgree(LastCall.selector, IsValueQueryField)
\* The same statement for the scalars and the lists of scalars only
FlatMatcherAgreesOnValues ==
  (ncalls > 0 /\ LastCall.op = "find" /\ LastCall.selector.t = "object")
  => MatchersAgree(LastCall.selector, LAMBDA field: ~(field.t = "object"))

\* The selector is a list of ids, one of which has no entity in the store
HasMissingId(store, selector) ==
  /\ isArray(selector)
  /\ \A k \in 1..Len(selector.v) : selector.v[k].t = "string"
  /\ \E k \in 1..Len(selector.v) : ~HasKey(store, selector.v[k].v)
\* The position in the list of the first id that has no entity in the store
FirstMissing(store, selector) ==
  CHOOSE k \in 1..Len(selector.v) :
    /\ ~HasKey(store, selector.v[k].v)
    /\ \A j \in 1..(k - 1) : HasKey(store, selector.v[j].v)
\* The step is a call of delete
DeleteStarts == ncalls' = ncalls + 1 /\ LastCall'.op = "delete"
\* The step runs the continuation at the head of the microtask queue
ContinuationRuns == microtasks # <<>> /\ microtasks' = Tail(microtasks)

\* C27: delete(ids) and update(ids, patch) stop at the first listed id that has
\* no entity: the entities whose ids come after that id in the list are
\* neither deleted nor updated, while the mutations made for the ids before it
\* stay in place.
IdListsFailFast ==
  [][/\ (DeleteStarts /\ HasMissingId(entities, LastCall'.selector))
        => \A ids \in {LastCall'.selector.v} :
           \A first \in {FirstMissing(entities, LastCall'.selector)} :
             \A j \in 1..Len(ids) :
               /\ j > first => Get(entities', ids[j].v) = Get(entities, ids[j].v)
               /\ j < first => ~HasKey(entities', ids[j].v)
     /\ (ContinuationRuns /\ HasMissingId(Head(microtasks).store, Head(microtasks).selector))
        => \A t \in {Head(microtasks)} :
           \A first \in {FirstMissing(t.store, t.selector)} :
             \A j \in 1..Len(t.selector.v) :
               t.selector.v[j] = t.id
               => /\ j > first => Get(entities', t.id.v) = Get(entities, t.id.v)
                  /\ j < first
                     => Get(entities', t.id.v) = updateEntity(t.current.ret, t.input)]_vars
\* The part of the statement about the ids before the first missing one
IdListsKeepEarlierMutations ==
  [][/\ (DeleteStarts /\ HasMissingId(entities, LastCall'.selector))
        => \A ids \in {LastCall'.selector.v} :
           \A first \in {FirstMissing(entities, LastCall'.selector)} :
             \A j \in 1..Len(ids) : j < first => ~HasKey(entities', ids[j].v)
     /\ (ContinuationRuns /\ HasMissingId(Head(microtasks).store, Head(microtasks).selector))
        => \A t \in {Head(microtasks)} :
           \A first \in {FirstMissing(t.store, t.selector)} :
             \A j \in 1..Len(t.selector.v) :
               (t.selector.v[j] = t.id /\ j < first)
               => Get(entities', t.id.v) = updateEntity(t.current.ret, t.input)]_vars
\* The part of the statement about update and the ids after the missing one
UpdateStopsAtMissingId ==
  [][(ContinuationRuns /\ HasMissingId(Head(microtasks).store, Head(microtasks).selector))
     => \A t \in {Head(microtasks)} :
        \A first \in {FirstMissing(t.store, t.selector)} :
          \A j \in 1..Len(t.selector.v) :
            (t.selector.v[j] = t.id /\ j > first)
            => Get(entities', t.id.v) = Get(entities, t.id.v)]_vars

\* The step is a call of create
CreateStarts == ncalls' = ncalls + 1 /\ LastCall'.op = "create"

\* C28: id generation in the flat repository is collision-free: every create
\* stores its entity under an id that no entity currently in the store has, so
\* n creates with no delete leave n entities, however close in time they are.
CreateIdsAreFresh ==
  [][CreateStarts
     => /\ ~HasKey(entities, Get(outcome'.ret, "id").v)
        /\ Len(entities'.v) = Len(entities.v) + 1]_vars
\* The same statement for the creates that the clock has ticked between
CreateIdsAreFreshAfterTick ==
  [][(CreateStarts /\ \A k \in 1..Len(entities.v) : entities.v[k][1] # ToString(clock))
     => /\ ~HasKey(entities, Get(outcome'.ret, "id").v)
        /\ Len(entities'.v) = Len(entities.v) + 1]_vars

\* update(id, p1) was started and, before its continuation ran, a second call
\* on the same id was started; both have settled
OverlappedOn(id, second) ==
  /\ microtasks = <<>>
  /\ Len(started.calls) = 2
  /\ started.calls[1].op = "update"
  /\ started.calls[1].selector = id
  /\ started.calls[2].op = second
  /\ started.calls[2].selector = id
\* The store after the calls run one after the other on the store base
OneAfterTheOther(base, id, burst) ==
  IF ~HasKey(base, id.v) THEN base
  ELSE IF burst[2].op = "delete" THEN Obj(SelectSeq(base.v, LAMBDA e: e[1] # id.v))
  ELSE Obj(SetEntry(base.v, id.v,
                    updateEntity(updateEntity(Get(base, id.v), burst[1].input),
                                 burst[2].input)))

\* C29: no operation suspends between reading and writing an entity: when
\* update(id, p1) is started and, before its promise settles, delete(id) or
\* update(id, p2) is started, the final store equals the one of running the
\* operations one after the other in call order.
OverlappingCallsSerialize ==
  \A i \in 1..Len(FlatSelectors) :
    (isId(FlatSelectors[i])
     /\ (OverlappedOn(FlatSelectors[i], "delete") \/ OverlappedOn(FlatSelectors[i], "update")))
    => entities = OneAfterTheOther(started.base, FlatSelectors[i], started.calls)
\* The same statement for the stores that do not hold the id when the calls
\* start
OverlappingCallsOnMissingId ==
  \A i \in 1..Len(FlatSelectors) :
    (isId(FlatSelectors[i]) /\ ~HasKey(started.base, FlatSelectors[i].v)
     /\ (OverlappedOn(FlatSelectors[i], "delete") \/ OverlappedOn(FlatSelectors[i], "update")))
    => entities = OneAfterTheOther(started.base, FlatSelectors[i], started.calls)

\* The edge store after this.edges.set for the link of n to t through rel,
\* made on the edge store es
LinkedThrough(es, n, rel, t) ==
  makeEdgesFromRelation(Repo(nodes, es, idCount), n, getRelation(Get(n, "type"), rel),
                        << t >>).edges
\* The entries of the edge store that join n and t with the relation's kind
LinksOf(es, n, rel, t) ==
  {i \in 1..Len(es) :
     /\ {Get(es[i].v, "from"), Get(es[i].v, "to")} = {Get(n, "id"), Get(t, "id")}
     /\ Get(es[i].v, "type") = parseRelation(getRelation(Get(n, "type"), rel)).edgeType}
\* The names of the relations of t's kind that are reciprocal to n's rel
ReciprocalsOf(n, rel, t) ==
  {RelationsOf(t)[b][1] : b \in {c \in 1..Len(RelationsOf(t)) :
     Reciprocal(n, getRelation(Get(n, "type"), rel), t, RelationsOf(t)[c][2])}}
\* Linking n to t through rel, or t to n through a reciprocal relation, stores
\* the same entry; the store then holds one edge of the pair
SameEntryFromBothSides(es, es2, n, rel, t) ==
  /\ \A rB \in ReciprocalsOf(n, rel, t) :
       /\ LinkedThrough(es, t, rB, n) = LinkedThrough(es, n, rel, t)
       /\ LinkedThrough(es2, t, rB, n) = es2
  /\ Cardinality(LinksOf(es2, n, rel, t)) = 1

\* C31: edge identity is independent of the creating side: linking A to B
\* through A's relation and linking them through B's reciprocal relation
\* produce the same edge-store entry; doing both leaves a single edge, and a
\* remove directive issued from either side deletes it.
EdgeIdentityIsSideFree ==
  [][/\ IsAdd(last')
        => \A n \in {MapGet(nodes, last'.input)} :
           \A rel \in {ObjEntries(last'.updates)[1][1]} :
           \A ts \in {RemoveMatches(n, rel, Get(ObjEntries(last'.updates)[1][2], "add"))} :
             \A k \in 1..Len(ts) : SameEntryFromBothSides(edges, edges', n, rel, ts[k])
     /\ IsRemove(last')
        => \A n \in {MapGet(nodes, last'.input)} :
           \A rel \in {ObjEntries(last'.updates)[1][1]} :
           \A ts \in {RemoveMatches(n, rel, Get(ObjEntries(last'.updates)[1][2], "remove"))} :
             \A k \in 1..Len(ts) :
               (EngineMade(edges, n, rel, ts[k])
                \/ \E rB \in ReciprocalsOf(n, rel, ts[k]) : EngineMade(edges, ts[k], rB, n))
               => LinksOf(edges', n, rel, ts[k]) = {}]_vars
\* No entry of the edge store that joins n and t was loaded from a snapshot
NoLoadedLink(es, n, rel, t) ==
  \A i \in LinksOf(es, n, rel, t) :
    es[i].k = getEdgeId(n, t, getRelation(Get(n, "type"), rel))
\* The same statement for the pairs that no loaded edge joins
EdgeIdentityIsSideFreeWhenNotLoaded ==
  [][/\ IsAdd(last')
        => \A n \in {MapGet(nodes, last'.input)} :
           \A rel \in {ObjEntries(last'.updates)[1][1]} :
           \A ts \in {RemoveMatches(n, rel, Get(ObjEntries(last'.updates)[1][2], "add"))} :
             \A k \in 1..Len(ts) :
               NoLoadedLink(edges, n, rel, ts[k])
               => SameEntryFromBothSides(edges, edges', n, rel, ts[k])
     /\ IsRemove(last')
        => \A n \in {MapGet(nodes, last'.input)} :
           \A rel \in {ObjEntries(last'.updates)[1][1]} :
           \A ts \in {RemoveMatches(n, rel, Get(ObjEntries(last'.updates)[1][2], "remove"))} :
             \A k \in 1..Len(ts) :
               (NoLoadedLink(edges, n, rel, ts[k])
                /\ (EngineMade(edges, n, rel, ts[k])
                    \/ \E rB \in ReciprocalsOf(n, rel, ts[k]) : EngineMade(edges, ts[k], rB, n)))
               => LinksOf(edges', n, rel, ts[k]) = {}]_vars
\* A link made from one side was removed from the other side
RemovedFromTheOtherSide ==
  /\ IsAdd(prev)
  /\ IsRemove(last)
  /\ prev.input # last.input
  /\ Get(ObjEntries(prev.updates)[1][2], "add") = Ref(last.input.v)
  /\ Get(ObjEntries(last.updates)[1][2], "remove") = Ref(prev.input.v)

\* The pairs <<name, x>> of a create input: the relation entry name holds the
\* node ref {id: x}, x is in the node store and has the relation's related kind
GoodRefs(input) ==
  {pair \in UNION {{<<RelationEntries(Get(input, "type"), input)[i][1],
                      Get(Elements(RelationEntries(Get(input, "type"), input)[i][2])[k], "id")>> :
                      k \in {j \in 1..Len(Elements(RelationEntries(Get(input, "type"), input)[i][2])) :
                               isNodeRef(Elements(RelationEntries(Get(input, "type"), input)[i][2])[j])}} :
                    i \in 1..Len(RelationEntries(Get(input, "type"), input))} :
     /\ MapHas(nodes, pair[2])
     /\ Get(MapGet(nodes, pair[2]), "type")
          = parseRelation(getRelation(Get(input, "type"), pair[1])).relatedType}
\* The calls of edges.set that join the nodes a and b
EdgeSetsBetween(sets, a, b) ==
  {p \in 1..Len(sets) : sets[p].map = "edges" /\ Endpoints(sets[p]) = {a, b}}
\* The step is a successful create of a single input that holds a node ref to
\* a stored node of the related kind
CreatesWithRef ==
  /\ last'.op = "create"
  /\ last'.err = ""
  /\ last'.input.t = "object"
  /\ GoodRefs(last'.input) # {}

\* C32: create with a relation entry element that is a node ref {id: x}, where
\* x exists and has the relation's related kind, creates no node for that
\* element, leaves x's record unchanged, allocates no id for it, and inserts
\* one edge so that x is in getRelatedNodes(newNode, name).
RefUsesExistingNode ==
  [][CreatesWithRef
     => \A sets \in {SetsOf(last'.input)} :
        \A pair \in GoodRefs(last'.input) :
          /\ NodeSetAt(sets, pair[2]) = 0
          /\ MapGet(nodes', pair[2]) = MapGet(nodes, pair[2])
          /\ \A k \in (idCount + 1)..idCount' : IdOf(k) # pair[2]
          /\ Cardinality(EdgeSetsBetween(sets, Get(last'.ret, "id"), pair[2])) = 1
          /\ \E related \in {getRelatedNodes(Repo(nodes', edges', idCount'),
                                               Get(last'.ret, "id"), pair[1]).ret.v} :
               \E k \in 1..Len(related) : Get(related[k], "id") = pair[2]]_vars
\* The same statement for the refs to a node whose id is not the next id of
\* the counter
RefUsesExistingNodeNoCollision ==
  [][CreatesWithRef
     => \A sets \in {SetsOf(last'.input)} :
        \A pair \in GoodRefs(last'.input) :
          pair[2] # IdOf(idCount + 1)
          => /\ NodeSetAt(sets, pair[2]) = 0
             /\ MapGet(nodes', pair[2]) = MapGet(nodes, pair[2])
             /\ \A k \in (idCount + 1)..idCount' : IdOf(k) # pair[2]
             /\ Cardinality(EdgeSetsBetween(sets, Get(last'.ret, "id"), pair[2])) = 1
             /\ \E related \in {getRelatedNodes(Repo(nodes', edges', idCount'),
                                                  Get(last'.ret, "id"), pair[1]).ret.v} :
                  \E k \in 1..Len(related) : Get(related[k], "id") = pair[2]]_vars
\* A create linked its new node to a stored node through a node ref
CreatedWithRef ==
  /\ last.op = "create"
  /\ last.err = ""
  /\ last.input = O3("type", Str("author"), "name", Str("Steve"),
                     "documents", Arr(<< Ref("doc1") >>))
  /\ MapHas(edges, Str(ToStr(Get(last.ret, "id")) \o "::owns::doc1"))

RECURSIVE Satisfies(_, _)
\* The node matches the query: all its value fields match and all its relation
\* fields match, a list of sub-queries matching when some related node
\* satisfies some sub-query
Satisfies(node, query) ==
  /\ \A i \in 1..Len(getValueQueryFields(node, query)) :
       matchesValueQueryField(node, getValueQueryFields(node, query)[i][1],
                              getValueQueryFields(node, query)[i][2]).ret
  /\ \A i \in 1..Len(getRelationQueryFields(node, query)) :
       \A field \in {getRelationQueryFields(node, query)[i][2]} :
       \A related \in {RelatedList(node, getRelationQueryFields(node, query)[i][1])} :
         IF isArray(field)
         THEN \E r \in 1..Len(related) :
                \E q \in 1..Len(field.v) : Satisfies(related[r], field.v[q])
         ELSE matchesOperator(Arr(related), field).ret
\* The relation fields of the query that are lists of sub-queries
SubQueryLists(node, query) ==
  SelectSeq(getRelationQueryFields(node, query), LAMBDA e: isArray(e[2]))

RECURSIVE QueryDepth(_)
\* The nesting depth of a query: 1 for a query without sub-query lists
QueryDepth(query) ==
  1 + Deepest(UNION {
        IF ~isArray(ObjEntries(query)[i][2]) THEN {}
        ELSE {QueryDepth(ObjEntries(query)[i][2].v[q]) :
                q \in {p \in 1..Len(ObjEntries(query)[i][2].v) :
                         ObjEntries(query)[i][2].v[p].t = "object"}} :
        i \in 1..Len(ObjEntries(query))})
\* The queries of a find input: the input, or the elements of a query list
QueriesOf(input) ==
  IF IsQueryList(input) THEN input.v
  ELSE IF input.t = "object" THEN << input >> ELSE <<>>
\* Some kind of the schema has a relation that reaches the kind itself
KindRelatesToItself ==
  \E i \in 1..Len(ObjEntries(relations)) :
    \E a \in 1..Len(ObjEntries(ObjEntries(relations)[i][2])) :
      parseRelation(ObjEntries(ObjEntries(relations)[i][2])[a][2]).relatedType
        = Str(ObjEntries(relations)[i][1])

\* C34: the query matcher terminates on every finite query and every finite
\* graph, cyclic graphs and schemas where a kind relates to itself included:
\* the recursion depth of matchesNodeQuery is bounded by the nesting depth of
\* the query, not by the graph.
MatcherDepthBoundedByQuery ==
  last.op = "find"
  => \A i \in 1..Len(QueriesOf(last.input)) :
       \A n \in 1..Len(nodes) :
         matchesNodeQueryDepth(Cur, nodes[n].v, QueriesOf(last.input)[i])
           <= QueryDepth(QueriesOf(last.input)[i])
\* On a cyclic graph of a kind that relates to itself, a find made the
\* matcher recurse as deep as its query nests
MatchedAlongACycle ==
  /\ last.op = "find"
  /\ last.err = ""
  /\ KindRelatesToItself
  /\ last.input.t = "object"
  /\ QueryDepth(last.input) = 3
  /\ last.ret.v # <<>>
  /\ \E n \in 1..Len(nodes) :
       /\ matchesNodeQueryDepth(Cur, nodes[n].v, last.input) = 3
       /\ WalkDepth(Cur, nodes[n].v, 6) = 6

\* The (from, kind, to) tuples of the edges of a snapshot
SnapshotEdges(graph) ==
  IF graph = Undefined THEN {}
  ELSE {<<Get(graph.edges[i], "from"), Get(graph.edges[i], "type"), Get(graph.edges[i], "to")>> :
          i \in 1..Len(graph.edges)}
\* The repository is the one the constructor made from the snapshot
LoadedFrom(graph) ==
  /\ calls = 0
  /\ nodes = constructor(graph).nodes
  /\ relations = constructor(graph).relations
\* Every relation of the kind of the edge's source that follows edges of the
\* edge's kind outwards lists the edge's target for the edge's source
ReflectedByGetRelatedNodes(e) ==
  \A a \in 1..Len(RelationsOf(MapGet(nodes, e[1]))) :
    \A rel \in {parseRelation(RelationsOf(MapGet(nodes, e[1]))[a][2])} :
      (rel.direction = "to" /\ rel.edgeType = e[2])
        => \E r \in {getRelatedNodes(Cur, MapGet(nodes, e[1]), RelationsOf(MapGet(nodes, e[1]))[a][1])} :
             /\ r.err = ""
             /\ \E k \in 1..Len(r.ret.v) : Get(r.ret.v[k], "id") = e[3]

\* C35: a repository constructed from a snapshot holds exactly the snapshot's
\* edges: every snapshot edge (from, kind, to) is in the edge store after
\* construction, two edges of different kinds between the same pair of
\* endpoints included, and getRelatedNodes reflects every snapshot edge.
SnapshotEdgesLoaded ==
  \A i \in 1..Len(Snapshots) :
    LoadedFrom(Snapshots[i])
      => /\ EdgeSet(edges) = SnapshotEdges(Snapshots[i])
         /\ \A e \in SnapshotEdges(Snapshots[i]) : ReflectedByGetRelatedNodes(e)
\* No two edges of the snapshot join the same source to the same target
OneEdgePerPair(graph) ==
  \A e, f \in SnapshotEdges(graph) : (e[1] = f[1] /\ e[3] = f[3]) => e = f
\* The snapshot's edges are all loaded when no two of them share their
\* endpoints
SnapshotEdgesLoadedOnePerPair ==
  \A i \in 1..Len(Snapshots) :
    (LoadedFrom(Snapshots[i]) /\ OneEdgePerPair(Snapshots[i]))
      => /\ EdgeSet(edges) = SnapshotEdges(Snapshots[i])
         /\ \A e \in SnapshotEdges(Snapshots[i]) : ReflectedByGetRelatedNodes(e)
\* A snapshot with two edges of different kinds between one pair was loaded
LoadedTwoKindsBetweenAPair ==
  \E i \in 1..Len(Snapshots) :
    /\ LoadedFrom(Snapshots[i])
    /\ ~OneEdgePerPair(Snapshots[i])
    /\ Len(edges) < Cardinality(SnapshotEdges(Snapshots[i]))

\* The operations that read
ReadOps == {"find", "getRelatedNodes", "getModel"}
\* The keys a model can be asked for: the keys of its record, the relations
\* of its kind, a key that is neither
ModelKeys(node) ==
  {ObjEntries(node)[i][1] : i \in 1..Len(ObjEntries(node))}
    \cup {RelationsOf(node)[a][1] : a \in 1..Len(RelationsOf(node))}
    \cup {"nothing"}
\* The result of an operation holds the stores and the counter of st
LeavesAlone(st, r) ==
  r.nodes = st.nodes /\ r.edges = st.edges /\ r.idCount = st.idCount
\* Reading any attribute of the model of a stored node, or all of them by a
\* spread, leaves the stores and the counter alone
AttributeReadsLeaveAlone(st) ==
  \A n \in 1..Len(st.nodes) :
    /\ \A key \in ModelKeys(st.nodes[n].v) :
         LeavesAlone(st, ModelGet(st, st.nodes[n].v, key))
    /\ LeavesAlone(st, ModelSpread(st, st.nodes[n].v))

\* C36: read operations have no effect: find (by id, id list, query or query
\* list), getRelatedNodes, getModel and reading any attribute of a NodeModel
\* leave the node store, the edge store and the id counter unchanged, whether
\* they succeed or fail.
ReadsHaveNoEffect ==
  [][last'.op \in ReadOps
       => /\ nodes' = nodes
          /\ edges' = edges
          /\ idCount' = idCount
          /\ AttributeReadsLeaveAlone(Repo(nodes', edges', idCount'))]_vars
\* A read failed after an update that made the engine store an edge
ReadFailedAfterAWrite ==
  /\ last.op \in ReadOps
  /\ last.err # ""
  /\ prev.op = "update"
  /\ prev.err = ""
  /\ Len(edges) > Len(SeedRepo.edges)
\* A find of a query list succeeded after a create that allocated ids
ReadSucceededAfterACreate ==
  /\ last.op = "find"
  /\ last.err = ""
  /\ IsQueryList(last.input)
  /\ last.ret.v # <<>>
  /\ prev.op = "create"
  /\ idCount > 0

\* The ids of the nodes a selector selects in the store st
SelectedIds(st, selector) ==
  {Get(flat(find(st, selector).ret)[k], "id") : k \in 1..Len(flat(find(st, selector).ret))}

\* C37: frame of delete: delete(selector) removes only the selected nodes and
\* the edges incident to them; every other node record and every edge with
\* neither endpoint among the deleted nodes is unchanged, and the id counter
\* is unchanged; a query-list selector that selects the same node twice
\* deletes it once without error.
DeleteFrame ==
  [][last'.op = "delete"
       => /\ idCount' = idCount
          /\ last'.err = find(Cur, last'.input).err
          /\ IF last'.err # ""
             THEN nodes' = nodes /\ edges' = edges
             ELSE \A D \in {SelectedIds(Cur, last'.input)} :
                    /\ \A id \in D : MapHas(nodes, id)
                    /\ nodes' = SelectSeq(nodes, LAMBDA entry: entry.k \notin D)
                    /\ edges' = SelectSeq(edges, LAMBDA entry:
                                            /\ Get(entry.v, "from") \notin D
                                            /\ Get(entry.v, "to") \notin D)]_vars
\* A delete by a query list whose queries select one node twice removed it
\* and left other nodes and edges
DeletedANodeSelectedTwice ==
  /\ last.op = "delete"
  /\ last.err = ""
  /\ IsQueryList(last.input)
  /\ \E i, j \in 1..Len(last.ret.v) : i < j /\ last.ret.v[i] = last.ret.v[j]
  /\ \A k \in 1..Len(last.ret.v) : ~MapHas(nodes, Get(last.ret.v[k], "id"))
  /\ nodes # <<>>
  /\ edges # <<>>

\* The call was a successful update(n, {rel: {add: q1, remove: q2}}) on a
\* stored node
IsAddRemove(call) ==
  /\ call.op = "update"
  /\ call.err = ""
  /\ typeof(call.input) = "string"
  /\ MapHas(nodes, call.input)
  /\ Len(ObjEntries(call.updates)) = 1
  /\ relationExists(Get(MapGet(nodes, call.input), "type"), ObjEntries(call.updates)[1][1])
  /\ ~falsy(Get(ObjEntries(call.updates)[1][2], "add"))
  /\ ~falsy(Get(ObjEntries(call.updates)[1][2], "remove"))
\* The stored records the add sub-query q1 and the remove sub-query q2 both
\* match, the remove sub-query on the store the add leaves
MatchedByBoth(n, rel, q1, q2) ==
  SelectSeq(RemoveMatches(n, rel, q1), LAMBDA t:
    \E ts \in {flat(find(makeEdgesFromRelation(Cur, n, getRelation(Get(n, "type"), rel),
                                               RemoveMatches(n, rel, q1)),
                          makeQuery(parseRelation(getRelation(Get(n, "type"), rel)).relatedType,
                                    q2)).ret)} :
      \E k \in 1..Len(ts) : ts[k] = t)
\* The (from, kind, to) of the edge that links n to t through rel
EdgeTuple(n, rel, t) ==
  IF parseRelation(getRelation(Get(n, "type"), rel)).direction = "from"
  THEN <<Get(t, "id"), parseRelation(getRelation(Get(n, "type"), rel)).edgeType, Get(n, "id")>>
  ELSE <<Get(n, "id"), parseRelation(getRelation(Get(n, "type"), rel)).edgeType, Get(t, "id")>>

\* C38: within one relation directive of an update, add is applied before
\* remove: when the same target node is matched by both the add and the remove
\* sub-query of update(n, {rel: {add: q1, remove: q2}}), the edge between n and
\* that target is absent afterwards, whether or not it existed before.
AddThenRemoveLeavesNoEdge ==
  [][IsAddRemove(last')
       => \A n \in {MapGet(nodes, last'.input)} :
          \A rel \in {ObjEntries(last'.updates)[1][1]} :
          \A ts \in {MatchedByBoth(n, rel, Get(ObjEntries(last'.updates)[1][2], "add"),
                                   Get(ObjEntries(last'.updates)[1][2], "remove"))} :
            \A k \in 1..Len(ts) :
              /\ EdgeTuple(n, rel, ts[k]) \notin EdgeSet(edges')
              /\ ~RelatedOn(edges', ts[k], n, rel)]_vars
\* The same statement for the targets that no loaded edge joins to n
AddThenRemoveLeavesNoEdgeWhenNotLoaded ==
  [][IsAddRemove(last')
       => \A n \in {MapGet(nodes, last'.input)} :
          \A rel \in {ObjEntries(last'.updates)[1][1]} :
          \A ts \in {MatchedByBoth(n, rel, Get(ObjEntries(last'.updates)[1][2], "add"),
                                   Get(ObjEntries(last'.updates)[1][2], "remove"))} :
            \A k \in 1..Len(ts) :
              NoLoadedLink(edges, n, rel, ts[k])
              => /\ EdgeTuple(n, rel, ts[k]) \notin EdgeSet(edges')
                 /\ ~RelatedOn(edges', ts[k], n, rel)]_vars
\* An update whose add and remove match the same target ran after an add had
\* made the engine link the two, and the link is gone
AddedAndRemovedAnEngineLink ==
  /\ IsAddRemove(last)
  /\ IsAdd(prev)
  /\ prev.input = last.input
  /\ Get(ObjEntries(prev.updates)[1][2], "add") = Get(ObjEntries(last.updates)[1][2], "add")
  /\ Get(ObjEntries(last.updates)[1][2], "add") = Get(ObjEntries(last.updates)[1][2], "remove")
  /\ \A n \in {MapGet(nodes, last.input)} :
     \A rel \in {ObjEntries(last.updates)[1][1]} :
     \A ts \in {RemoveMatches(n, rel, Get(ObjEntries(last.updates)[1][2], "add"))} :
       /\ ts # <<>>
       /\ \A k \in 1..Len(ts) : EdgeTuple(n, rel, ts[k]) \notin EdgeSet(edges)
\* An update whose add and remove match the same target left the loaded edge
\* that joins the two
AddedAndRemovedOverALoadedLink ==
  /\ IsAddRemove(last)
  /\ \A n \in {MapGet(nodes, last.input)} :
     \A rel \in {ObjEntries(last.updates)[1][1]} :
     \E ts \in {RemoveMatches(n, rel, Get(ObjEntries(last.updates)[1][2], "remove"))} :
       \E k \in 1..Len(ts) :
         /\ ~EngineMade(edges, n, rel, ts[k])
         /\ EdgeTuple(n, rel, ts[k]) \in EdgeSet(edges)
         /\ Get(ObjEntries(last.updates)[1][2], "add") = Get(ObjEntries(last.updates)[1][2], "remove")

====
